---- MODULE Spec2Model ----
(***************************************************************************)
(* The sandboxed execution service of runner/src: the static screener      *)
(* (static_check.py), the container pool (container_pool.py), the          *)
(* synchronous ingress POST /run-code (server.py) and the queue ingress    *)
(* (kafka_consumer.py), with the sandbox executor (worker/executor.py) as  *)
(* the environment that answers the pool's HTTP round-trips.               *)
(***************************************************************************)
EXTENDS Integers, Sequences, FiniteSets, TLC

\* ------------------------------------------------------------------ bounds
\* Largest number of sandboxes that became ready at start-up.
MaxPool == 2
\* Number of POST /run-code handlers that can be in flight at once.
NumHttp == 1
\* Number of deliveries the queue consumer takes from the request topic.
MaxMsgs == 2
\* Number of top-level statements of a screened program (SpecScreen).
MaxStmts == 2
\* Number of programs a sandbox is still executing after the pool gave up
\* on their round-trips (SpecSandbox).
MaxStale == 1
\* Number of observers registered besides broadcast_to_dashboard
\* (SpecObserve).
MaxObservers == 2
\* Number of dashboard connections (SpecDash).
NumConns == 1
\* Messages on a dashboard connection beyond which no request and no
\* periodic update starts.
MaxFrames == 4
\* Executions counted in the statistics, and the last reading of the
\* clock (SpecTrack).
MaxExecs == 2
MaxClock == 1

\* -------------------------------------------------------- program constants
\* container_pool.py: self._max_history = 100
max_history == 100
\* server.py: TIMEOUT = int(os.environ.get("TIMEOUT", "10"))
TIMEOUT == 10
\* container_pool.py: timeout=timeout + 5  (extra time for HTTP overhead)
HTTP_SLACK == 5

\* ------------------------------------------------------- python dictionaries
\* A dict is a record; "k in d" is k \in DOMAIN d; d.get(k, default) is Get.
Get(d, k, default) == IF k \in DOMAIN d THEN d[k] ELSE default

\* ------------------------------------------------------------------ ast
\* Nodes of the abstract syntax tree ast.parse builds.  children lists the
\* child nodes in the order ast.iter_child_nodes yields them (expression
\* context nodes, which no rule looks at, are left out).
Name(id) == [type |-> "Name", id |-> id, children |-> <<>>]
BinOp(left, right) == [type |-> "BinOp", children |-> <<left, right>>]
Constant(v) == [type |-> "Constant", value |-> v, children |-> <<>>]
Attribute(value, attr) ==
    [type |-> "Attribute", attr |-> attr, children |-> <<value>>]
Call(func, args) == [type |-> "Call", func |-> func, children |-> <<func>> \o args]
Expr(value) == [type |-> "Expr", children |-> <<value>>]
alias(name) == [type |-> "alias", name |-> name, children |-> <<>>]
\* names: a sequence of dotted names, each a sequence of components.
Import(names) ==
    [type |-> "Import", names |-> [i \in DOMAIN names |-> alias(names[i])],
     children |-> [i \in DOMAIN names |-> alias(names[i])]]
\* module: a dotted name, or <<>> for "from . import x" (node.module is None).
ImportFrom(module, names) ==
    [type |-> "ImportFrom", module |-> module,
     children |-> [i \in DOMAIN names |-> alias(names[i])]]
withitem(context_expr) == [type |-> "withitem", children |-> <<context_expr>>]
With(items, body) == [type |-> "With", children |-> items \o body]
AsyncWith(items, body) == [type |-> "AsyncWith", children |-> items \o body]
Module(body) == [type |-> "Module", children |-> body]

\* A submitted program: parses is FALSE when ast.parse raises SyntaxError.
Program(tree) == [parses |-> TRUE, tree |-> tree]
Unparsable == [parses |-> FALSE, tree |-> Module(<<>>)]

\* ast.walk: breadth first, a queue of nodes, children appended at the end.
RECURSIVE walk(_)
walk(todo) ==
    IF todo = <<>> THEN <<>>
    ELSE <<Head(todo)>> \o walk(Tail(todo) \o Head(todo).children)

\* ------------------------------------------------------ static_check.py
FORBIDDEN_MODULES ==
    {"os", "sys", "subprocess", "socket", "shutil", "pathlib", "fcntl",
     "signal", "resource", "ctypes", "multiprocessing", "threading",
     "asyncio", "selectors", "urllib", "http", "inspect", "importlib"}

FORBIDDEN_FUNCTIONS ==
    {"eval", "exec", "__import__", "compile", "open", "input", "globals",
     "locals", "vars", "getattr", "setattr", "delattr", "dir"}

FORBIDDEN_ATTRS ==
    {"__class__", "__dict__", "__bases__", "__mro__", "__subclasses__"}

\* The text of a dotted name: ".".join(components).
RECURSIVE Dotted(_)
Dotted(name) ==
    IF Len(name) = 1 THEN name[1] ELSE name[1] \o "." \o Dotted(Tail(name))

\* name.split(".")[0]
TopLevel(name) == name[1]

\* for alias in node.names: if alias.name.split(".")[0] in FORBIDDEN_MODULES
RECURSIVE ImportViolations(_)
ImportViolations(aliases) ==
    IF aliases = <<>> THEN <<>>
    ELSE (IF TopLevel(Head(aliases).name) \in FORBIDDEN_MODULES
          THEN <<"import " \o Dotted(Head(aliases).name)>> ELSE <<>>)
         \o ImportViolations(Tail(aliases))

\* The body of the loop over ast.walk(tree): what one node appends to found.
NodeViolationsNoFrom(node) ==
    (IF node.type = "Import" THEN ImportViolations(node.names) ELSE <<>>)
    \o (IF node.type = "Call"
        THEN IF node.func.type = "Name"
             THEN IF node.func.id \in FORBIDDEN_FUNCTIONS
                  THEN <<node.func.id>> ELSE <<>>
             ELSE IF node.func.type = "Attribute"
                  THEN IF node.func.attr \in FORBIDDEN_FUNCTIONS
                       THEN <<node.func.attr>> ELSE <<>>
                  ELSE <<>>
        ELSE <<>>)
    \o (IF node.type = "Attribute" /\ node.attr \in FORBIDDEN_ATTRS
        THEN <<"attribute " \o node.attr>> ELSE <<>>)
    \o (IF node.type = "With" THEN <<"with statement">> ELSE <<>>)

NodeViolations(node) ==
    (IF node.type = "Import" THEN ImportViolations(node.names) ELSE <<>>)
    \o (IF node.type = "ImportFrom"
        THEN IF node.module # <<>> /\ TopLevel(node.module) \in FORBIDDEN_MODULES
             THEN <<"from " \o Dotted(node.module) \o " import ...">> ELSE <<>>
        ELSE <<>>)
    \o (IF node.type = "Call"
        THEN IF node.func.type = "Name"
             THEN IF node.func.id \in FORBIDDEN_FUNCTIONS
                  THEN <<node.func.id>> ELSE <<>>
             ELSE IF node.func.type = "Attribute"
                  THEN IF node.func.attr \in FORBIDDEN_FUNCTIONS
                       THEN <<node.func.attr>> ELSE <<>>
                  ELSE <<>>
        ELSE <<>>)
    \o (IF node.type = "Attribute" /\ node.attr \in FORBIDDEN_ATTRS
        THEN <<"attribute " \o node.attr>> ELSE <<>>)
    \o (IF node.type = "With" THEN <<"with statement">> ELSE <<>>)

RECURSIVE Collect(_)
Collect(nodes) ==
    IF nodes = <<>> THEN <<>>
    ELSE NodeViolations(Head(nodes)) \o Collect(Tail(nodes))

ast_static_checkWalksAnyway(code) == Collect(walk(<<code.tree>>))
ast_static_check(code) ==
    IF ~code.parses THEN <<"syntax error">>
    ELSE Collect(walk(<<code.tree>>))

\* ------------------------------------------------------- sample programs
\* print(2+2)
PrintProgram ==
    Program(Module(<<Expr(Call(Name("print"),
                               <<BinOp(Constant("2"), Constant("2"))>>))>>))
\* import os; open("/etc/passwd")
ImportOsProgram ==
    Program(Module(<<Import(<< <<"os">> >>),
                     Expr(Call(Name("open"), <<Constant("/etc/passwd")>>))>>))

Programs == {PrintProgram, ImportOsProgram}

\* --------------------------------------------------- worker/executor.py
\* subprocess.run([sys.executable, "-c", code], capture_output=True, ...):
\* the captured streams and exit status of the program.
SubprocessRun(code) ==
    IF code = PrintProgram
    THEN [stdout |-> "4\n", stderr |-> "", return_code |-> 0]
    ELSE [stdout |-> "", stderr |-> "Traceback", return_code |-> 1]

\* The body of an HTTP response: json is FALSE when response.json() raises.
JsonBody(d) == [json |-> TRUE, data |-> d]
NotJson == [json |-> FALSE, data |-> [html |-> "<!doctype html>"]]

\* What /execute answers: the program's result with 200, "execution timed
\* out" with 408, {"error": str(e)} with 500, "missing 'code' field" with 400.
ExecutorBody(status, code) ==
    CASE status = 200 -> SubprocessRun(code)
      [] status = 408 -> [error |-> "execution timed out"]
      [] status = 400 -> [error |-> "missing 'code' field"]
      [] OTHER -> [error |-> "subprocess failed"]

SandboxStatuses == {200, 408, 500, 400}

\* The ways the pool's POST to a sandbox can end.  elapsed is the time the
\* round-trip took, in seconds: httpx raises TimeoutException only when the
\* timeout it was given has run out; the connection can fail at any time.
NoOutcome == [kind |-> "none"]
HttpTimeout(t) == t + HTTP_SLACK
Outcomes(code, t) ==
    {[kind |-> "reply", status |-> s, body |-> JsonBody(ExecutorBody(s, code))] :
        s \in SandboxStatuses}
    \cup {[kind |-> "reply", status |-> s, body |-> NotJson] : s \in SandboxStatuses}
    \cup {[kind |-> "timeout", elapsed |-> HttpTimeout(t)]}
    \cup {[kind |-> "network", elapsed |-> e] : e \in {0, t + 1}}

\* ---------------------------------------------------- container_pool.py
VARIABLES
    staticCheck,   \* server.py STATIC_CHECK
    workers,       \* ContainerPool.workers: the slots, in construction order
    pc,            \* where each caller of execute_code is
    code,          \* the program of the caller's request
    timeout,       \* the deadline the caller passed to execute_code
    worker,        \* the index of the slot the call acquired, 0 for None
    outcome,       \* how the call's sandbox round-trip ended
    result,        \* the dict execute_code returns
    events,        \* the events the call has emitted, in order
    resp,          \* the response the ingress built for the request
    request_id,    \* the consumer loop's local variable request_id
    published,     \* the messages on the response topic, in order
    delivered,     \* the deliveries taken from the request topic, in order
    running,       \* per sandbox, the number of programs it is executing
    callbacks,     \* ContainerPool._event_callbacks, in registration order
    received,      \* per call and callback, the events the callback was called with
    phase,         \* where server.py lifespan is
    sandboxes,     \* per spawn index, the container and what the spawn returned
    container,     \* per slot, the spawn index of WorkerContainer.container
    kafka,         \* the KafkaCodeRunner: producer, consumer and consumer task
    log,           \* the steps lifespan has taken, in order
    pool,          \* container_pool.py _pool: None, created, or initialized
    down,          \* the spawn indices whose sandbox does not answer /health
    health,        \* per caller of health_check, where it is and its snapshot
    now,           \* time.time(), in seconds
    dashboard_connections,  \* server.py dashboard_connections, in order
    stats,         \* ContainerPool.stats
    history,       \* ContainerPool._execution_history
    lock,          \* the holder of ContainerPool._lock, Free for none
    writes,        \* per call, the writes it made to fields of its slot
    shown,         \* per call, its slot's busy flag in each pool_status emitted
    chat,          \* the originator of queue requests: KafkaManager of the chat
                   \* service, its _pending_requests and the futures awaited
    websocket,     \* per dashboard connection, where its handler is and the
                   \* messages sent to it, in order
    broadcast      \* the call of broadcast_to_dashboard followed step by
                   \* step: its message, its place in dashboard_connections,
                   \* its list disconnected, the connections it has called
                   \* send_text on and those registered ever since it began

lifeVars == <<phase, sandboxes, container, kafka, log>>
otherVars == <<now, chat, broadcast>>
sideVars == <<down, health, otherVars, dashboard_connections>>
callVars == <<lock, writes, shown, websocket>>

vars == <<staticCheck, workers, pc, code, timeout, worker, outcome, result,
          events, resp, request_id, published, delivered, running,
          callbacks, received, lifeVars, pool, sideVars, stats, history,
          callVars>>

Http == 1..NumHttp
Queue == NumHttp + 1
Callers == Http \cup {Queue}

NoResult == [none |-> TRUE]
NoCode == [parses |-> FALSE, tree |-> [type |-> "none", children |-> <<>>]]

\* WorkerContainer(busy=False, last_used=0.0, current_execution=None);
\* current_execution is the set of the executions attached: empty for None.
IdleWorker == [busy |-> FALSE, current_execution |-> {}, last_used |-> 0]

\* The callers of health_check: the GET /health handler and the dashboard
\* connections.  NoHealth: no call in progress.
HealthHandler == 0
Conns == 1..NumConns
Probers == {HealthHandler} \cup Conns
NoSnapshot == [total |-> 0, available |-> 0, busy |-> 0, unhealthy |-> 0,
               workers |-> <<>>]
NoHealth == [pc |-> "idle", results |-> NoSnapshot, resp |-> NoResult]

\* An observer registered with add_event_callback; behaviour tells what a
\* call of it does: it returns, it raises, or it returns a coroutine that
\* raises when awaited.
Observer(name, behaviour) == [name |-> name, behaviour |-> behaviour]
Behaviours == {"returns", "raises", "coroutine raises"}

\* server.py broadcast_to_dashboard: a failing send_text is caught and the
\* connection dropped; the callback itself returns.
broadcast_to_dashboard == Observer("broadcast_to_dashboard", "returns")

\* _emit_event: for callback in self._event_callbacks: try: result =
\* callback(event); await result if a coroutine; except Exception: warning.
\* called is the set of callbacks that were called with the event, raised
\* tells whether an exception leaves _emit_event.
RECURSIVE emit_eventNoCatch(_, _)
emit_eventNoCatch(cbs, k) ==
    IF k > Len(cbs) THEN [called |-> {}, raised |-> FALSE]
    ELSE IF cbs[k].behaviour \in {"raises", "coroutine raises"}
    THEN [called |-> {k}, raised |-> TRUE]
    ELSE LET rest == emit_eventNoCatch(cbs, k + 1) IN
         [called |-> {k} \cup rest.called, raised |-> rest.raised]
RECURSIVE emit_event(_, _)
emit_event(cbs, k) ==
    IF k > Len(cbs) THEN [called |-> {}, raised |-> FALSE]
    ELSE LET failed == cbs[k].behaviour \in {"raises", "coroutine raises"}
             caught == failed
             rest == IF failed /\ ~caught
                     THEN [called |-> {}, raised |-> TRUE]
                     ELSE emit_event(cbs, k + 1)
         IN [called |-> {k} \cup rest.called, raised |-> rest.raised]

\* What one emission in execute_code does: each callback called gets the
\* event, and execute_code goes on to `next` unless the emission raised, in
\* which case the exception leaves execute_code where it stands.
NoneReceived == [k \in DOMAIN callbacks |-> <<>>]
Deliver(got, event) ==
    [k \in DOMAIN callbacks |->
        IF k \in emit_event(callbacks, 1).called THEN Append(got[k], event)
        ELSE got[k]]
Continue(next) == IF emit_event(callbacks, 1).raised THEN "raised" ELSE next

\* NotFollowed stands for statistics, or a history, that a specification
\* does not follow: whatever is counted or stored, it stays NotFollowed.
NotFollowed == [followed |-> FALSE]
NoStats == [followed |-> TRUE, total_executions |-> 0, total_exec_time_ms |-> 0,
            total_lines |-> 0, success_count |-> 0]
NoHistory == [followed |-> TRUE, records |-> <<>>]

\* len(code.split('\n')): a statement to a line, one line at least.
Statements == {"Import", "ImportFrom", "Expr", "With", "AsyncWith"}
Lines(cde) ==
    LET nodes == walk(<<cde.tree>>)
        n == Cardinality({k \in DOMAIN nodes : nodes[k].type \in Statements})
    IN IF n = 0 THEN 1 ELSE n

\* execute_code, "Update statistics".
countEverySuccess(st, duration_ms, lines, success) ==
    IF ~st.followed THEN st
    ELSE [st EXCEPT !.total_executions = @ + 1,
                    !.total_exec_time_ms = @ + duration_ms,
                    !.total_lines = @ + lines,
                    !.success_count = @ + 1]
count(st, duration_ms, lines, success) ==
    IF ~st.followed THEN st
    ELSE [st EXCEPT !.total_executions = @ + 1,
                    !.total_exec_time_ms = @ + duration_ms,
                    !.total_lines = @ + lines,
                    !.success_count = IF success THEN @ + 1 ELSE @]

\* get_stats: the counters and, derived on the read, the mean duration, the
\* mean line count and the success rate in per cent; a / b in Python is the
\* quotient as a float, kept here as the fraction it is the value of, and
\* each derived value is the integer 0 while nothing was executed.
Divide(a, b) == [numerator |-> a, denominator |-> b]
get_stats(st) ==
    [total_executions |-> st.total_executions,
     total_exec_time_ms |-> st.total_exec_time_ms,
     total_lines |-> st.total_lines,
     success_count |-> st.success_count,
     avg_exec_time_ms |->
        IF st.total_executions > 0
        THEN Divide(st.total_exec_time_ms, st.total_executions) ELSE 0,
     avg_lines |->
        IF st.total_executions > 0
        THEN Divide(st.total_lines, st.total_executions) ELSE 0,
     success_rate |->
        IF st.total_executions > 0
        THEN Divide(st.success_count * 100, st.total_executions) ELSE 0]

\* execute_code, "Store in history": append, and pop(0) beyond _max_history.
storeEvictsNewest(h, execution) ==
    IF ~h.followed THEN h
    ELSE [h EXCEPT !.records =
            IF Len(@) + 1 > max_history THEN @ ELSE Append(@, execution)]
store(h, execution) ==
    IF ~h.followed THEN h
    ELSE [h EXCEPT !.records =
            IF Len(@) + 1 > max_history THEN Tail(Append(@, execution))
            ELSE Append(@, execution)]

\* async with self._lock: entering makes the caller the holder, leaving
\* frees the lock.  Written: a write to a field of a slot, and whether the
\* writer held the lock.
Free == 0
Lock(l, c) == c
UnlockKeeps(l) == l
Unlock(l) == Free
Written(field, l, c) == [field |-> field, locked |-> l = c]

\* _emit_pool_status: the list of worker_info it emits.
emit_pool_statusAllIdle(ws) ==
    [k \in DOMAIN ws |-> [busy |-> FALSE, healthy |-> TRUE]]
emit_pool_status(ws) ==
    [k \in DOMAIN ws |-> [busy |-> ws[k].busy, healthy |-> TRUE]]

\* A message on a dashboard connection: sent by the connection's handler,
\* or by broadcast_to_dashboard for an event of the pool.
Message(type, by) == [type |-> type, by |-> by]
NoConn == [pc |-> "closed", msgs |-> <<>>]

\* No call of broadcast_to_dashboard is followed.
NoBroadcast == [pc |-> "idle", message |-> "", index |-> 0, disconnected |-> <<>>,
                tried |-> {}, stayed |-> {}]

\* _emit_event reaching broadcast_to_dashboard: send_text(json.dumps(event))
\* to every connection in dashboard_connections.
Broadcast(event) ==
    IF dashboard_connections = <<>> THEN websocket
    ELSE IF \E k \in emit_event(callbacks, 1).called :
          callbacks[k].name = "broadcast_to_dashboard"
    THEN [w \in DOMAIN websocket |->
            IF \E k \in DOMAIN dashboard_connections : dashboard_connections[k] = w
            THEN [websocket[w] EXCEPT !.msgs = Append(@, Message(event, "broadcast"))]
            ELSE websocket[w]]
    ELSE websocket

\* acquire: for worker in self.workers: if not worker.busy -> that worker;
\* 0 when the loop ends without one (return None).
acquireAny(ws) ==
    IF ws = <<>> THEN 0 ELSE CHOOSE i \in DOMAIN ws : TRUE
acquireLeastRecentlyUsed(ws) ==
    IF \E i \in DOMAIN ws : ~ws[i].busy
    THEN CHOOSE i \in DOMAIN ws :
            /\ ~ws[i].busy
            /\ \A j \in DOMAIN ws :
                  ~ws[j].busy =>
                     \/ ws[i].last_used < ws[j].last_used
                     \/ ws[i].last_used = ws[j].last_used /\ i <= j
    ELSE 0
acquire(ws) ==
    IF \E i \in DOMAIN ws : ~ws[i].busy
    THEN CHOOSE i \in DOMAIN ws :
            ~ws[i].busy /\ \A j \in DOMAIN ws : j < i => ws[j].busy
    ELSE 0

\* release: worker.busy = False; worker.current_execution = None
releaseKeepBusy(ws, i) == [ws EXCEPT ![i].current_execution = {}]
releaseToggles(ws, i) ==
    [ws EXCEPT ![i].busy = ~@, ![i].current_execution = {}]
release(ws, i) ==
    [ws EXCEPT ![i].busy = FALSE, ![i].current_execution = {}]

\* The try/except around the round-trip: the dict execute_code returns.
execResultTimeoutAs500(o) ==
    CASE o.kind = "reply" ->
            IF ~o.body.json
            THEN [error |-> "Expecting value", status_code |-> 500]
            ELSE IF o.status = 200 THEN o.body.data
            ELSE IF o.status = 408
            THEN [error |-> "execution timed out", status_code |-> 408]
            ELSE [error |-> Get(o.body.data, "error", "unknown error"),
                  status_code |-> o.status]
      [] OTHER -> [error |-> "All connection attempts failed", status_code |-> 500]
execResult(o) ==
    CASE o.kind = "reply" ->
            IF ~o.body.json
            THEN [error |-> "Expecting value", status_code |-> 500]
            ELSE IF o.status = 200 THEN o.body.data
            ELSE IF o.status = 408
            THEN [error |-> "execution timed out", status_code |-> 408]
            ELSE [error |-> Get(o.body.data, "error", "unknown error"),
                  status_code |-> o.status]
      [] o.kind = "timeout" ->
            [error |-> "execution timed out", status_code |-> 408]
      [] OTHER -> [error |-> "All connection attempts failed", status_code |-> 500]

\* success = True only on the status 200 branch.
execSuccess(o) == o.kind = "reply" /\ o.body.json /\ o.status = 200

\* if worker is None: return {"error": "no available workers", "status_code": 503}
NoWorkersAs500 == [error |-> "no available workers", status_code |-> 500]
NoWorkers == [error |-> "no available workers", status_code |-> 503]

\* ------------------------------------------------------------ server.py
\* run_code_executor, static check branch: JSONResponse(status_code=403, ...)
Forbidden(static_issues) ==
    [status |-> 403,
     body |-> [error |-> "forbidden constructs found", details |-> static_issues]]

\* run_code_executor after pool.execute_code returned: HTTPException(status,
\* detail) is rendered by the framework as {"detail": detail}.
run_code_response(res) ==
    IF "error" \in DOMAIN res
    THEN LET status_code == Get(res, "status_code", 500) IN
         IF status_code = 408
         THEN [status |-> 408, body |-> [detail |-> "execution timed out"]]
         ELSE IF status_code = 503
         THEN [status |-> 503, body |-> [detail |-> "no available workers"]]
         ELSE [status |-> status_code, body |-> [detail |-> res.error]]
    ELSE [status |-> 200,
          body |-> [stdout |-> Get(res, "stdout", ""),
                    stderr |-> Get(res, "stderr", ""),
                    return_code |-> Get(res, "return_code", 0)]]

\* ---------------------------------------------------- kafka_consumer.py
CHAT_KAFKA_ENCRYPTION_KEY == "chat-kafka-encryption-key-32b!"
RUNNER_KAFKA_ENCRYPTION_KEY == "runner-kafka-encryption-key-32!"

\* Fernet(key).encrypt(data) and .decrypt(token): a token opens only under
\* the key that made it (InvalidToken otherwise).
derive_fernet_key(key_string) == [sha256 |-> key_string]
FernetEncrypt(key, data) == [fernet |-> derive_fernet_key(key), data |-> data]
FernetDecrypt(key, token) ==
    IF token.fernet = derive_fernet_key(key) THEN [ok |-> TRUE, data |-> token.data]
    ELSE [ok |-> FALSE, data |-> token.data]

\* json.dumps(d): the text of an object, its members as name/value pairs;
\* json.loads(text): the dict of those members.  NotJsonText is text
\* json.loads rejects.
JsonDumps(d) == [json |-> TRUE, value |-> {<<k, d[k]>> : k \in DOMAIN d}]
JsonLoads(text) ==
    [k \in {p[1] : p \in text.value} |-> (CHOOSE p \in text.value : p[1] = k)[2]]
NotJsonText == [json |-> FALSE, value |-> {<<"text", "{">>}]

\* decrypt_request: ok is FALSE when decrypt or json.loads raises.
decrypt_requestRunnerKey(encrypted_data) ==
    LET decrypted == FernetDecrypt(RUNNER_KAFKA_ENCRYPTION_KEY, encrypted_data) IN
    IF decrypted.ok /\ decrypted.data.json
    THEN [ok |-> TRUE, request |-> JsonLoads(decrypted.data)]
    ELSE [ok |-> FALSE, request |-> [none |-> TRUE]]
decrypt_request(encrypted_data) ==
    LET decrypted == FernetDecrypt(CHAT_KAFKA_ENCRYPTION_KEY, encrypted_data) IN
    IF decrypted.ok /\ decrypted.data.json
    THEN [ok |-> TRUE, request |-> JsonLoads(decrypted.data)]
    ELSE [ok |-> FALSE, request |-> [none |-> TRUE]]

encrypt_response(data) == FernetEncrypt(RUNNER_KAFKA_ENCRYPTION_KEY, JsonDumps(data))

\* chat/app/utils/kafka_client.py, the originator's side of the wire:
\* encrypt_request with the request-direction key, decrypt_response with
\* the response-direction key.
encrypt_request(data) == FernetEncrypt(CHAT_KAFKA_ENCRYPTION_KEY, JsonDumps(data))
decrypt_response(encrypted_data) ==
    LET decrypted == FernetDecrypt(RUNNER_KAFKA_ENCRYPTION_KEY, encrypted_data) IN
    IF decrypted.ok /\ decrypted.data.json
    THEN [ok |-> TRUE, response |-> JsonLoads(decrypted.data)]
    ELSE [ok |-> FALSE, response |-> [none |-> TRUE]]

\* The values request_id takes: None, and Unbound while the consumer loop has
\* not assigned its local variable yet ("request_id" in locals() is False).
None == "None"
Unbound == "unbound"
RequestIds == {"abc", "xyz"}
Truthy(v) == v \notin {None, ""}

\* _execute_code, static check branch.
ForbiddenResult(static_issues) ==
    [error |-> "forbidden constructs found", details |-> static_issues,
     status_code |-> 403]

\* _execute_code after pool.execute_code returned.
execute_code_responseAll500(res) ==
    IF "error" \in DOMAIN res
    THEN [error |-> res.error, status_code |-> 500]
    ELSE [stdout |-> Get(res, "stdout", ""),
          stderr |-> Get(res, "stderr", ""),
          return_code |-> Get(res, "return_code", 0)]
execute_code_response(res) ==
    IF "error" \in DOMAIN res
    THEN [error |-> res.error, status_code |-> Get(res, "status_code", 500)]
    ELSE [stdout |-> Get(res, "stdout", ""),
          stderr |-> Get(res, "stderr", ""),
          return_code |-> Get(res, "return_code", 0)]

\* result["request_id"] = request_id
WithRequestId(res, rid) == [request_id |-> rid] @@ res

\* A message on the response topic, as its consumer sees it: the key it is
\* published under and the request_id its payload carries.
Record(key, value) ==
    [key |-> key, request_id |-> decrypt_response(value).response.request_id]

\* A broker that puts a record before the ones it holds.
SendAtHead(topic, key, value, sent) ==
    IF sent THEN <<Record(key, value)>> \o topic ELSE topic

\* producer.send_and_wait(topic, value, key): the topic after the call, which
\* raises and appends nothing when sent is FALSE.
Send(topic, key, value, sent) ==
    IF sent THEN Append(topic, Record(key, value)) ELSE topic

\* The except branch of the consumer loop: an error response goes out when
\* request_id is among the locals and truthy.
ErrorResponse(rid, text) ==
    [request_id |-> rid, error |-> text, status_code |-> 500]
OnError(topic, rid, text, sent) ==
    IF rid # Unbound /\ Truthy(rid)
    THEN Send(topic, rid, encrypt_response(ErrorResponse(rid, text)), sent)
    ELSE topic
\* A request as the originator puts it on the request topic (rid None: the
\* payload has no request_id), a message made with another key, and a
\* message whose plaintext is not JSON.
RequestPayload(rid, cde, tmo) ==
    IF rid = None
    THEN [code |-> cde, user_id |-> "u1", timeout |-> tmo]
    ELSE [request_id |-> rid, code |-> cde, user_id |-> "u1", timeout |-> tmo]
QueueRequest(rid, cde, tmo) == encrypt_request(RequestPayload(rid, cde, tmo))
WrongKeyMessage ==
    encrypt_response([request_id |-> "abc", code |-> PrintProgram,
                      user_id |-> "u1", timeout |-> TIMEOUT])
NotJsonMessage == FernetEncrypt(CHAT_KAFKA_ENCRYPTION_KEY, NotJsonText)

QueueTimeouts == {TIMEOUT \div 2, 3 * TIMEOUT}
Messages ==
    {QueueRequest(rid, cde, tmo) :
        rid \in RequestIds \cup {None}, cde \in Programs, tmo \in QueueTimeouts}
    \cup {WrongKeyMessage, NotJsonMessage}

\* ------------------------------------------ chat/app/utils/kafka_client.py
\* KafkaManager on the originator's side: pending is the keys of
\* _pending_requests; future tells of the future made for each id, "unused"
\* while no request was made with the id; result is the place on the
\* response topic of the response a future was resolved with, 0 for none;
\* read is the places on the response topic _consume_responses has handled.
NoChat == [pending |-> {}, future |-> [rid \in RequestIds |-> "unused"],
           result |-> [rid \in RequestIds |-> 0], read |-> {}]

\* _consume_responses, the body of the loop for the message at place k of
\* the response topic: a request_id that is truthy and pending is popped and
\* its future, unless done, resolved; any other response is logged only.
consume_responseKeepsPending(ch, topic, k) ==
    LET rid == topic[k].request_id IN
    IF Truthy(rid) /\ rid \in ch.pending /\ ch.future[rid] = "waiting"
    THEN [ch EXCEPT !.future[rid] = "resolved", !.result[rid] = k,
                    !.read = @ \cup {k}]
    ELSE [ch EXCEPT !.read = @ \cup {k}]
consume_response(ch, topic, k) ==
    LET rid == topic[k].request_id IN
    IF Truthy(rid) /\ rid \in ch.pending
    THEN IF ch.future[rid] = "waiting"
         THEN [ch EXCEPT !.pending = @ \ {rid}, !.future[rid] = "resolved",
                         !.result[rid] = k, !.read = @ \cup {k}]
         ELSE [ch EXCEPT !.pending = @ \ {rid}, !.read = @ \cup {k}]
    ELSE [ch EXCEPT !.read = @ \cup {k}]

\* ------------------------------------- chat/app/services/message_service.py
\* The originator of a queue request: a response with both "error" and
\* "status_code" is a failure with that status, any other is a success (200).
QueueStatus(r) ==
    IF "error" \in DOMAIN r /\ "status_code" \in DOMAIN r
    THEN r.status_code ELSE 200

\* ------------------------------------------------------------- the system
NoResp == [none |-> TRUE]

ServingOn(cbs, st, hist, conns) ==
    /\ staticCheck \in BOOLEAN
    /\ workers \in {[i \in 1..n |-> IdleWorker] : n \in 1..MaxPool}
    /\ pc = [c \in Callers |-> "idle"]
    /\ code = [c \in Callers |-> NoCode]
    /\ timeout = [c \in Callers |-> 0]
    /\ worker = [c \in Callers |-> 0]
    /\ outcome = [c \in Callers |-> NoOutcome]
    /\ result = [c \in Callers |-> NoResult]
    /\ events = [c \in Callers |-> <<>>]
    /\ resp = [c \in Callers |-> NoResp]
    /\ request_id = Unbound
    /\ published = <<>>
    /\ delivered = <<>>
    /\ running = [i \in DOMAIN workers |-> 0]
    /\ callbacks = cbs
    /\ received = [c \in Callers |-> [k \in DOMAIN cbs |-> <<>>]]
    /\ phase = "serving"
    /\ sandboxes = [i \in 0..(Len(workers) - 1) |->
                       [container |-> "running", result |-> "WorkerContainer"]]
    /\ container = [i \in DOMAIN workers |-> i - 1]
    /\ kafka = [enabled |-> TRUE, producer |-> "started", consumer |-> "started",
                task |-> "running"]
    /\ log = <<>>
    /\ pool = "initialized"
    /\ down = {}
    /\ health = [h \in {HealthHandler} \cup conns |-> NoHealth]
    /\ now = 0
    /\ chat = NoChat
    /\ dashboard_connections = <<>>
    /\ stats = st
    /\ history = hist
    /\ lock = Free
    /\ writes = [c \in Callers |-> {}]
    /\ shown = [c \in Callers |-> <<>>]
    /\ websocket = [w \in conns |-> NoConn]
    /\ broadcast = NoBroadcast

ServingWith(cbs, st, hist) == ServingOn(cbs, st, hist, Conns)

Serving(cbs) == ServingWith(cbs, NotFollowed, NotFollowed)

\* The state once lifespan has started the service with every sandbox ready
\* and the queue ingress running; lifespan registers broadcast_to_dashboard.
Init == Serving(<<broadcast_to_dashboard>>)

\* execute_code from its call to its first suspension, for caller c: acquire;
\* without a worker the 503 dict is returned at once and `after` is where
\* the ingress continues with `mapped`, the response it builds from that
\* dict; with a worker the execution is attached to it and execution_start
\* is emitted.
Begin(c, cde, tmo, after, mapped) ==
    LET i == acquire(workers)
        held == Lock(lock, c)
    IN
    /\ lock = Free
    /\ lock' = Unlock(held)
    /\ code' = [code EXCEPT ![c] = cde]
    /\ timeout' = [timeout EXCEPT ![c] = tmo]
    /\ IF i = 0
       THEN /\ result' = [result EXCEPT ![c] = NoWorkers]
            /\ resp' = [resp EXCEPT ![c] = mapped]
            /\ pc' = [pc EXCEPT ![c] = after]
            /\ UNCHANGED <<workers, worker, events, received, writes, shown, websocket>>
       ELSE /\ workers' = [workers EXCEPT ![i].busy = TRUE,
                                          ![i].last_used = now,
                                          ![i].current_execution = {c}]
            /\ writes' = [writes EXCEPT ![c] =
                  {Written("busy", held, c), Written("last_used", held, c),
                   Written("current_execution", Unlock(held), c)}]
            /\ shown' = [shown EXCEPT ![c] = <<>>]
            /\ websocket' = Broadcast("execution_start")
            /\ worker' = [worker EXCEPT ![c] = i]
            /\ events' = [events EXCEPT ![c] = <<"execution_start">>]
            /\ received' = [received EXCEPT ![c] =
                               Deliver(NoneReceived, "execution_start")]
            /\ pc' = [pc EXCEPT ![c] = Continue("started")]
            /\ UNCHANGED <<result, resp>>
    /\ UNCHANGED outcome

\* run_code_executor: if STATIC_CHECK: static_issues = ast_static_check(code)
StaticCheckHttp(cde) == IF staticCheck THEN ast_static_check(cde) ELSE <<>>

\* _execute_code: if self.static_checker: ..., where lifespan passes
\* ast_static_check if STATIC_CHECK else None.
StaticCheckQueueOff(cde) == <<>>
StaticCheckQueue(cde) == IF staticCheck THEN ast_static_check(cde) ELSE <<>>

\* POST /run-code with body {code}: run_code_executor up to its first
\* suspension.
RunCode(r, cde) ==
    /\ pc[r] = "idle"
    /\ LET static_issues == StaticCheckHttp(cde) IN
       IF static_issues # <<>>
       THEN /\ resp' = [resp EXCEPT ![r] = Forbidden(static_issues)]
            /\ code' = [code EXCEPT ![r] = cde]
            /\ pc' = [pc EXCEPT ![r] = "done"]
            /\ UNCHANGED <<workers, timeout, worker, outcome, result, events,
                           received, callVars>>
       ELSE Begin(r, cde, TIMEOUT, "done", run_code_response(NoWorkers))
    /\ UNCHANGED <<lifeVars, pool, sideVars, stats, history, callbacks, staticCheck,
                   request_id, published, delivered, running>>

\* The consumer loop takes the next message msg; sent tells whether the
\* send_and_wait of the except branch gets through.
Consume(msg, sent) ==
    /\ pc[Queue] = "idle"
    /\ Len(delivered) < MaxMsgs
    /\ LET dec == decrypt_request(msg) IN
       IF ~dec.ok
       THEN /\ published' = OnError(published, request_id, "InvalidToken", sent)
            /\ delivered' = Append(delivered, [decoded |-> FALSE, request_id |-> None])
            /\ UNCHANGED <<workers, pc, code, timeout, worker, outcome, result,
                           events, received, resp, request_id, callVars>>
       ELSE LET rid == Get(dec.request, "request_id", None)
                cde == dec.request.code
                tmo == Get(dec.request, "timeout", TIMEOUT)
                static_issues == StaticCheckQueue(cde)
            IN /\ request_id' = rid
               /\ delivered' = Append(delivered, [decoded |-> TRUE, request_id |-> rid])
               /\ IF static_issues # <<>>
                  THEN /\ resp' = [resp EXCEPT ![Queue] =
                                WithRequestId(ForbiddenResult(static_issues), rid)]
                       /\ code' = [code EXCEPT ![Queue] = cde]
                       /\ timeout' = [timeout EXCEPT ![Queue] = tmo]
                       /\ pc' = [pc EXCEPT ![Queue] = "send"]
                       /\ UNCHANGED <<workers, worker, outcome, result, events,
                                      received, callVars>>
                  ELSE Begin(Queue, cde, tmo, "send",
                             WithRequestId(execute_code_response(NoWorkers), rid))
               /\ UNCHANGED published
    /\ UNCHANGED <<lifeVars, pool, sideVars, stats, history, callbacks, staticCheck,
                   running>>

\* execute_code: the pool_status after execution_start, then the POST to the
\* worker's /execute, where the executor starts the program.
Post(c) ==
    /\ pc[c] = "started"
    /\ events' = [events EXCEPT ![c] = Append(@, "pool_status")]
    /\ received' = [received EXCEPT ![c] = Deliver(@, "pool_status")]
    /\ shown' = [shown EXCEPT ![c] =
                    Append(@, emit_pool_status(workers)[worker[c]].busy)]
    /\ websocket' = Broadcast("pool_status")
    /\ pc' = [pc EXCEPT ![c] = Continue("posted")]
    /\ UNCHANGED <<lock, writes>>
    /\ running' = [running EXCEPT ![worker[c]] = @ + 1]
    /\ UNCHANGED <<lifeVars, pool, sideVars, stats, history, callbacks,
                   staticCheck, workers, code, timeout, worker, outcome, result,
                   resp, request_id, published, delivered>>

\* execute_code, "Update execution info": the record of the execution of
\* call c as it is finalized, its start the moment the slot was acquired.
ExecutionInfo(c, success) ==
    [caller |-> c, code |-> code[c], worker_name |-> container[worker[c]],
     start_time |-> workers[worker[c]].last_used, end_time |-> now,
     duration_ms |-> (now - workers[worker[c]].last_used) * 1000,
     success |-> success]

\* execute_code: the round-trip ends with o; the result dict is built, the
\* execution record finalized and execution_end emitted.  ended tells
\* whether the program has ended in the sandbox by then: it has when the
\* executor answered (subprocess.run returned or raised), and it may not
\* have when the pool stopped waiting or lost the connection; at most
\* MaxStale programs are left behind in a sandbox.
Reply(c, o, ended) ==
    /\ pc[c] = "posted"
    /\ o.kind = "reply" => ended
    /\ ~ended => running[worker[c]] <= MaxStale
    /\ running' = [running EXCEPT ![worker[c]] = IF ended THEN @ - 1 ELSE @]
    /\ outcome' = [outcome EXCEPT ![c] = o]
    /\ result' = [result EXCEPT ![c] = execResult(o)]
    /\ events' = [events EXCEPT ![c] = Append(@, "execution_end")]
    /\ received' = [received EXCEPT ![c] = Deliver(@, "execution_end")]
    /\ LET execution == ExecutionInfo(c, execSuccess(o)) IN
          /\ stats' = count(stats, execution.duration_ms, Lines(code[c]),
                            execution.success)
          /\ history' = store(history, execution)
    /\ websocket' = Broadcast("execution_end")
    /\ pc' = [pc EXCEPT ![c] = Continue("finalized")]
    /\ UNCHANGED <<lifeVars, pool, sideVars, callbacks, staticCheck, workers, code,
                   timeout, worker, resp, request_id, published, delivered,
                   lock, writes, shown>>

\* execute_code: await self.release(worker), then the final pool_status.
Release(c) ==
    /\ pc[c] = "finalized"
    /\ lock = Free
    /\ lock' = Unlock(Lock(lock, c))
    /\ workers' = release(workers, worker[c])
    /\ writes' = [writes EXCEPT ![c] =
          @ \cup {Written("busy", Lock(lock, c), c),
                  Written("current_execution", Lock(lock, c), c)}]
    /\ events' = [events EXCEPT ![c] = Append(@, "pool_status")]
    /\ received' = [received EXCEPT ![c] = Deliver(@, "pool_status")]
    /\ shown' = [shown EXCEPT ![c] =
          Append(@, emit_pool_status(release(workers, worker[c]))[worker[c]].busy)]
    /\ websocket' = Broadcast("pool_status")
    /\ pc' = [pc EXCEPT ![c] = Continue("released")]
    /\ UNCHANGED <<lifeVars, pool, sideVars, stats, history, callbacks,
                   staticCheck, code, timeout, worker, outcome, result, resp,
                   request_id, published, delivered, running>>

\* execute_code returns to run_code_executor, which builds the response.
HttpReturn(r) ==
    /\ r \in Http
    /\ pc[r] = "released"
    /\ resp' = [resp EXCEPT ![r] = run_code_response(result[r])]
    /\ pc' = [pc EXCEPT ![r] = "done"]
    /\ UNCHANGED <<lifeVars, pool, sideVars, stats, history, callbacks,
                   staticCheck, workers, code, timeout, worker, outcome, result,
                   events, received, request_id, published, delivered, running,
                   callVars>>

\* The response of request r has gone out; the handler is free again.
HttpDone(r) ==
    /\ r \in Http
    /\ pc[r] = "done"
    /\ pc' = [pc EXCEPT ![r] = "idle"]
    /\ code' = [code EXCEPT ![r] = NoCode]
    /\ timeout' = [timeout EXCEPT ![r] = 0]
    /\ worker' = [worker EXCEPT ![r] = 0]
    /\ outcome' = [outcome EXCEPT ![r] = NoOutcome]
    /\ result' = [result EXCEPT ![r] = NoResult]
    /\ events' = [events EXCEPT ![r] = <<>>]
    /\ received' = [received EXCEPT ![r] = NoneReceived]
    /\ writes' = [writes EXCEPT ![r] = {}]
    /\ shown' = [shown EXCEPT ![r] = <<>>]
    /\ UNCHANGED <<lock, websocket>>
    /\ resp' = [resp EXCEPT ![r] = NoResp]
    /\ UNCHANGED <<lifeVars, pool, sideVars, stats, history, callbacks,
                   staticCheck, workers, request_id, published, delivered, running>>

\* execute_code returns to _execute_code, and that to the consumer loop,
\* which sets result["request_id"].
QueueReturn ==
    /\ pc[Queue] = "released"
    /\ resp' = [resp EXCEPT ![Queue] =
                  WithRequestId(execute_code_response(result[Queue]), request_id)]
    /\ pc' = [pc EXCEPT ![Queue] = "send"]
    /\ UNCHANGED <<lifeVars, pool, sideVars, stats, history, callbacks,
                   staticCheck, workers, code, timeout, worker, outcome, result,
                   events, received, request_id, published, delivered, running,
                   callVars>>

\* The consumer loop publishes the response, keyed on request_id; when that
\* send_and_wait raises (sent is FALSE) the except branch runs, and errSent
\* tells whether its own send_and_wait gets through.
Publish(sent, errSent) ==
    /\ pc[Queue] = "send"
    /\ published' =
          IF sent
          THEN Send(published, IF Truthy(request_id) THEN request_id ELSE None,
                    encrypt_response(resp[Queue]), TRUE)
          ELSE OnError(published, request_id, "KafkaError", errSent)
    /\ pc' = [pc EXCEPT ![Queue] = "idle"]
    /\ code' = [code EXCEPT ![Queue] = NoCode]
    /\ timeout' = [timeout EXCEPT ![Queue] = 0]
    /\ worker' = [worker EXCEPT ![Queue] = 0]
    /\ outcome' = [outcome EXCEPT ![Queue] = NoOutcome]
    /\ result' = [result EXCEPT ![Queue] = NoResult]
    /\ events' = [events EXCEPT ![Queue] = <<>>]
    /\ received' = [received EXCEPT ![Queue] = NoneReceived]
    /\ writes' = [writes EXCEPT ![Queue] = {}]
    /\ shown' = [shown EXCEPT ![Queue] = <<>>]
    /\ UNCHANGED <<lock, websocket>>
    /\ resp' = [resp EXCEPT ![Queue] = NoResp]
    /\ UNCHANGED <<lifeVars, pool, sideVars, stats, history, callbacks,
                   staticCheck, workers, request_id, delivered, running>>

\* worker/executor.py: a program whose round-trip the pool has given up on
\* ends in sandbox i (subprocess.run returns or its timeout expires).
SandboxFinish(i) ==
    /\ i \in DOMAIN running
    /\ running[i] > Cardinality({c \in Callers : pc[c] = "posted" /\ worker[c] = i})
    /\ running' = [running EXCEPT ![i] = @ - 1]
    /\ UNCHANGED <<lifeVars, pool, sideVars, stats, history, callbacks,
                   staticCheck, workers, pc, code, timeout, worker, outcome,
                   result, events, received, resp, request_id, published,
                   delivered, callVars>>

\* ---------------------------------------------------------- specifications
\* Spec: the pool under concurrent load.  Every handler and the consumer run
\* at once; they submit print(2+2), the broker accepts every send, and a
\* round-trip ends in one of the six ways execute_code tells apart.
PoolPrograms == {PrintProgram}
PoolMessages == {QueueRequest("abc", PrintProgram, TIMEOUT \div 2)}
PoolOutcomes(cde, t) ==
    {[kind |-> "reply", status |-> s, body |-> JsonBody(ExecutorBody(s, cde))] :
        s \in {200, 408, 500}}
    \cup {[kind |-> "reply", status |-> 500, body |-> NotJson],
          [kind |-> "timeout", elapsed |-> HttpTimeout(t)],
          [kind |-> "network", elapsed |-> 0]}

Next ==
    \/ \E r \in Http, cde \in PoolPrograms : RunCode(r, cde)
    \/ \E msg \in PoolMessages : Consume(msg, TRUE)
    \/ \E c \in Callers : Post(c)
    \/ \E c \in Callers : \E o \in PoolOutcomes(code[c], timeout[c]) : Reply(c, o, TRUE)
    \/ \E c \in Callers : Release(c)
    \/ \E r \in Http : HttpReturn(r)
    \/ \E r \in Http : HttpDone(r)
    \/ QueueReturn
    \/ Publish(TRUE, TRUE)

Spec == Init /\ [][Next]_vars

\* SpecServe: every input, one caller at a time past its round-trip.  A
\* request starts, and a round-trip ends, only while every other caller is
\* idle or waiting for its sandbox; requests bring every program, round-trips
\* end with every status and body of the sandbox and every transport
\* failure, and the broker may refuse a send.
OthersWaiting(c) == \A d \in Callers \ {c} : pc[d] \in {"idle", "posted"}
ServeMessages ==
    {QueueRequest("abc", cde, tmo) : cde \in Programs, tmo \in QueueTimeouts}

NextServe ==
    \/ \E r \in Http, cde \in Programs : OthersWaiting(r) /\ RunCode(r, cde)
    \/ \E msg \in ServeMessages, sent \in BOOLEAN :
          OthersWaiting(Queue) /\ Consume(msg, sent)
    \/ \E c \in Callers : Post(c)
    \/ \E c \in Callers : \E o \in Outcomes(code[c], timeout[c]) :
          OthersWaiting(c) /\ Reply(c, o, TRUE)
    \/ \E c \in Callers : Release(c)
    \/ \E r \in Http : HttpReturn(r)
    \/ \E r \in Http : HttpDone(r)
    \/ QueueReturn
    \/ \E sent, errSent \in BOOLEAN : Publish(sent, errSent)

SpecServe == Init /\ [][NextServe]_vars

\* SpecQueue: the queue ingress alone, with every message and a broker that
\* accepts every send.
NextQueue ==
    \/ \E msg \in Messages : Consume(msg, TRUE)
    \/ Post(Queue)
    \/ \E o \in Outcomes(code[Queue], timeout[Queue]) : Reply(Queue, o, TRUE)
    \/ Release(Queue)
    \/ QueueReturn
    \/ Publish(TRUE, TRUE)

SpecQueue == Init /\ [][NextQueue]_vars

\* SpecScreen: the screener on every program of up to MaxStmts statements.
\* POST /run-code requests arrive one at a time with such a program, and the
\* sandbox runs the programs that are let through.
ScreenStmts ==
    {Import(<< <<"os">> >>),
     Import(<< <<"os", "path">>, <<"sys">> >>),
     Import(<< <<"json">> >>),
     ImportFrom(<<"subprocess">>, << <<"run">> >>),
     ImportFrom(<<>>, << <<"models">> >>),
     Expr(Call(Name("open"), <<Constant("/etc/passwd")>>)),
     Expr(Call(Attribute(Name("builtins"), "eval"), <<Constant("1")>>)),
     Expr(Call(Call(Name("compile"), <<>>), <<>>)),
     Expr(Attribute(Name("x"), "__class__")),
     Expr(Call(Name("print"), <<BinOp(Constant("2"), Constant("2"))>>)),
     With(<<withitem(Call(Name("open"), <<Constant("f")>>))>>, <<Expr(Name("f"))>>),
     With(<<withitem(Name("lock"))>>, <<Import(<< <<"socket">> >>)>>),
     AsyncWith(<<withitem(Name("lock"))>>, <<Expr(Name("f"))>>)}

RECURSIVE Bodies(_)
Bodies(n) ==
    IF n = 0 THEN {<<>>}
    ELSE Bodies(n - 1)
         \cup {Append(b, st) : b \in {x \in Bodies(n - 1) : Len(x) = n - 1},
                               st \in ScreenStmts}

ScreenPrograms == {Program(Module(b)) : b \in Bodies(MaxStmts)} \cup {Unparsable}

ScreenOutcomes(cde) ==
    {[kind |-> "reply", status |-> 200, body |-> JsonBody(ExecutorBody(200, cde))]}

NextScreen ==
    \/ /\ \A d \in Callers : pc[d] = "idle"
       /\ \E r \in Http, cde \in ScreenPrograms : RunCode(r, cde)
    \/ \E r \in Http : Post(r)
    \/ \E r \in Http : \E o \in ScreenOutcomes(code[r]) : Reply(r, o, TRUE)
    \/ \E r \in Http : Release(r)
    \/ \E r \in Http : HttpReturn(r)
    \/ \E r \in Http : HttpDone(r)

SpecScreen == Init /\ [][NextScreen]_vars

\* SpecSandbox: the pool and its sandboxes.  As Spec, and a program may
\* still be running in its sandbox when the pool stops waiting for the
\* answer or loses the connection; it ends there later.
NextSandbox ==
    \/ \E r \in Http, cde \in PoolPrograms : RunCode(r, cde)
    \/ \E msg \in PoolMessages : Consume(msg, TRUE)
    \/ \E c \in Callers : Post(c)
    \/ \E c \in Callers : \E o \in PoolOutcomes(code[c], timeout[c]) :
          \E ended \in BOOLEAN : Reply(c, o, ended)
    \/ \E i \in DOMAIN workers : SandboxFinish(i)
    \/ \E c \in Callers : Release(c)
    \/ \E r \in Http : HttpReturn(r)
    \/ \E r \in Http : HttpDone(r)
    \/ QueueReturn
    \/ Publish(TRUE, TRUE)

SpecSandbox == Init /\ [][NextSandbox]_vars

\* ------------------------------------------------ lifespan: start and stop
\* A step lifespan has taken: what was called, on which spawn index (-1 when
\* the step is not about a sandbox), and whether it returned (ok) or raised.
Step(step, index, ok) == [step |-> step, index |-> index, ok |-> ok]
Indices == DOMAIN sandboxes

\* An initialize that goes from the image build straight to the spawns.
initializeWithoutCleanup(clientOk, networkOk, imageOk, listOk) ==
    LET steps == <<Step("docker.from_env", -1, clientOk),
                   Step("_create_worker_network", -1, networkOk),
                   Step("_connect_self_to_worker_network", -1, TRUE),
                   Step("_build_worker_image", -1, imageOk)>>
        raising == {k \in DOMAIN steps : ~steps[k].ok}
        last == IF raising = {} THEN Len(steps)
                ELSE CHOOSE k \in raising : \A j \in raising : k <= j
    IN SubSeq(steps, 1, last)

\* ContainerPool.initialize up to _spawn_workers: the steps taken, the first
\* one that raises being the last.  _connect_self_to_worker_network catches
\* whatever it meets; _cleanup_old_workers raises when containers.list does.
initialize(clientOk, networkOk, imageOk, listOk) ==
    LET steps == <<Step("docker.from_env", -1, clientOk),
                   Step("_create_worker_network", -1, networkOk),
                   Step("_connect_self_to_worker_network", -1, TRUE),
                   Step("_build_worker_image", -1, imageOk),
                   Step("_cleanup_old_workers", -1, listOk)>>
        raising == {k \in DOMAIN steps : ~steps[k].ok}
        last == IF raising = {} THEN Len(steps)
                ELSE CHOOSE k \in raising : \A j \in raising : k <= j
    IN SubSeq(steps, 1, last)

\* The process before lifespan runs: no pool, no observers, no queue runner,
\* POOL_SIZE sandboxes to spawn; KAFKA_ENABLED is read from the environment.
Starting ==
    /\ staticCheck \in BOOLEAN
    /\ workers = <<>>
    /\ pc = [c \in Callers |-> "idle"]
    /\ code = [c \in Callers |-> NoCode]
    /\ timeout = [c \in Callers |-> 0]
    /\ worker = [c \in Callers |-> 0]
    /\ outcome = [c \in Callers |-> NoOutcome]
    /\ result = [c \in Callers |-> NoResult]
    /\ events = [c \in Callers |-> <<>>]
    /\ resp = [c \in Callers |-> NoResp]
    /\ request_id = Unbound
    /\ published = <<>>
    /\ delivered = <<>>
    /\ running = <<>>
    /\ callbacks = <<>>
    /\ received = [c \in Callers |-> <<>>]
    /\ phase = "startup"
    /\ \E pool_size \in 1..MaxPool :
          sandboxes = [i \in 0..(pool_size - 1) |->
                          [container |-> "absent", result |-> "pending"]]
    /\ container = <<>>
    /\ \E KAFKA_ENABLED \in BOOLEAN :
          kafka = [enabled |-> KAFKA_ENABLED, producer |-> "none",
                   consumer |-> "none", task |-> "none"]
    /\ log = <<>>
    /\ pool = "None"
    /\ down = {}
    /\ health = [h \in Probers |-> NoHealth]
    /\ now = 0
    /\ chat = NoChat
    /\ broadcast = NoBroadcast
    /\ dashboard_connections = <<>>
    /\ stats = NotFollowed
    /\ history = NotFollowed
    /\ lock = Free
    /\ writes = [c \in Callers |-> {}]
    /\ shown = [c \in Callers |-> <<>>]
    /\ websocket = [w \in Conns |-> NoConn]

serveVars == <<staticCheck, pc, code, timeout, worker, outcome, result, events,
               resp, request_id, published, delivered, sideVars, stats, history,
               callVars>>

\* lifespan: pool = await get_pool(), as far as _spawn_workers.  An exception
\* is logged and raised again: the service does not start.
GetPool(clientOk, networkOk, imageOk, listOk) ==
    LET steps == initialize(clientOk, networkOk, imageOk, listOk) IN
    /\ phase = "startup"
    /\ log' = log \o steps
    /\ phase' = IF steps[Len(steps)].ok THEN "spawn" ELSE "failed"
    /\ pool' = "created"
    /\ UNCHANGED <<serveVars, workers, running, callbacks, received, sandboxes,
                   container, kafka>>

\* _spawn_single_worker(index): containers.run creates the container or
\* raises; without an address, or when /health does not answer within the
\* attempts, the exception is caught and None returned, the container left
\* as it is.
SpawnOutcomes == {"run raised", "not ready", "ready"}
SpawnSingleWorker(index, how) ==
    /\ phase = "spawn"
    /\ sandboxes[index].result = "pending"
    /\ sandboxes' = [sandboxes EXCEPT ![index] =
          [container |-> IF how = "run raised" THEN "absent" ELSE "running",
           result |-> IF how = "ready" THEN "WorkerContainer" ELSE "None"]]
    /\ UNCHANGED <<serveVars, workers, running, callbacks, received, phase,
                   container, kafka, log, pool>>

\* _spawn_workers after gather: for result in results: if result is not None:
\* self.workers.append(result) -- the spawn indices of the slots, in order.
RECURSIVE SpawnedNoneKept(_, _)
SpawnedNoneKept(sb, i) ==
    IF i \notin DOMAIN sb THEN <<>>
    ELSE <<i>> \o SpawnedNoneKept(sb, i + 1)
RECURSIVE Spawned(_, _)
Spawned(sb, i) ==
    IF i \notin DOMAIN sb THEN <<>>
    ELSE (IF sb[i].result = "WorkerContainer" THEN <<i>> ELSE <<>>)
         \o Spawned(sb, i + 1)

\* _spawn_workers once every spawn has returned, RuntimeError without a
\* worker; then initialize returns and lifespan registers
\* broadcast_to_dashboard and turns to the queue ingress if KAFKA_ENABLED.
SpawnWorkers ==
    LET spawned == Spawned(sandboxes, 0) IN
    /\ phase = "spawn"
    /\ \A i \in Indices : sandboxes[i].result # "pending"
    /\ container' = spawned
    /\ workers' = [k \in DOMAIN spawned |-> IdleWorker]
    /\ running' = [k \in DOMAIN spawned |-> 0]
    /\ log' = Append(log, Step("_spawn_workers", -1, spawned # <<>>))
    /\ pool' = IF spawned = <<>> THEN pool ELSE "initialized"
    /\ IF spawned = <<>>
       THEN /\ phase' = "failed"
            /\ UNCHANGED <<callbacks, received>>
       ELSE /\ phase' = IF kafka.enabled THEN "kafka" ELSE "serving"
            /\ callbacks' = Append(callbacks, broadcast_to_dashboard)
            /\ received' = [c \in Callers |-> [k \in 1..(Len(callbacks) + 1) |-> <<>>]]
    /\ UNCHANGED <<serveVars, sandboxes, kafka>>

\* lifespan: kafka_runner.start() inside try/except Exception.  initialize
\* starts the producer, then the consumer; start then creates the consumer
\* task.  A failure is logged as a warning and lifespan goes on to yield.
KafkaOutcomes == {"started", "producer failed", "consumer failed"}
KafkaStartUncaught(how) ==
    /\ phase = "kafka"
    /\ kafka' = [kafka EXCEPT
          !.producer = IF how = "producer failed" THEN "created" ELSE "started",
          !.consumer = CASE how = "producer failed" -> "none"
                         [] how = "consumer failed" -> "created"
                         [] OTHER -> "started",
          !.task = IF how = "started" THEN "running" ELSE "none"]
    /\ log' = Append(log, Step("kafka_runner.start", -1, how = "started"))
    /\ phase' = IF how = "started" THEN "serving" ELSE "failed"
    /\ UNCHANGED <<serveVars, workers, running, callbacks, received, sandboxes,
                   container, pool>>
KafkaStart(how) ==
    /\ phase = "kafka"
    /\ kafka' = [kafka EXCEPT
          !.producer = IF how = "producer failed" THEN "created" ELSE "started",
          !.consumer = CASE how = "producer failed" -> "none"
                         [] how = "consumer failed" -> "created"
                         [] OTHER -> "started",
          !.task = IF how = "started" THEN "running" ELSE "none"]
    /\ log' = Append(log, Step("kafka_runner.start", -1, how = "started"))
    /\ phase' = "serving"
    /\ UNCHANGED <<serveVars, workers, running, callbacks, received, sandboxes,
                   container, pool>>

\* KafkaCodeRunner.stop: the consumer task, if there is one, is cancelled and
\* awaited, CancelledError passed over; then consumer.stop() and
\* producer.stop() for those that exist.
stop(k) ==
    (IF k.task # "none"
     THEN <<Step("_consumer_task.cancel", -1, TRUE),
            Step("await _consumer_task", -1, TRUE)>>
     ELSE <<>>)
    \o (IF k.consumer # "none" THEN <<Step("consumer.stop", -1, TRUE)>> ELSE <<>>)
    \o (IF k.producer # "none" THEN <<Step("producer.stop", -1, TRUE)>> ELSE <<>>)

\* lifespan after yield, which the server reaches once the requests in
\* flight have been answered: if kafka_runner: await kafka_runner.stop().
\* kafka_runner is set as soon as the runner was created, started or not.
KafkaStop ==
    /\ phase = "serving"
    /\ \A c \in Callers : pc[c] = "idle"
    /\ log' = log \o (IF kafka.enabled THEN stop(kafka) ELSE <<>>)
    /\ kafka' = IF kafka.enabled
                THEN [kafka EXCEPT
                        !.task = IF @ = "none" THEN @ ELSE "cancelled",
                        !.consumer = IF @ = "none" THEN @ ELSE "stopped",
                        !.producer = IF @ = "none" THEN @ ELSE "stopped"]
                ELSE kafka
    /\ phase' = "shutdown_pool"
    /\ UNCHANGED <<serveVars, workers, running, callbacks, received, sandboxes,
                   container, pool>>

\* ContainerPool.shutdown, the loop body for the slots from k on: stop and
\* remove in one try, so a stop that raises skips the remove; the exception
\* is logged and the loop goes on.
RECURSIVE shutdown(_, _, _, _)
shutdown(cs, k, stopRaises, removeRaises) ==
    IF k > Len(cs) THEN <<>>
    ELSE (IF k \in stopRaises
          THEN <<Step("container.stop", cs[k], FALSE)>>
          ELSE <<Step("container.stop", cs[k], TRUE),
                 Step("container.remove", cs[k], k \notin removeRaises)>>)
         \o shutdown(cs, k + 1, stopRaises, removeRaises)

\* What the steps made of the container of spawn index i.
After(steps, i, before) ==
    IF \E k \in DOMAIN steps :
          steps[k] = Step("container.remove", i, TRUE)
    THEN "removed"
    ELSE IF \E k \in DOMAIN steps : steps[k] = Step("container.stop", i, TRUE)
    THEN "stopped"
    ELSE before

\* lifespan: await shutdown_pool() -- the loop over self.workers, then
\* self.workers.clear().
ShutdownPool(stopRaises, removeRaises) ==
    LET steps == shutdown(container, 1, stopRaises, removeRaises) IN
    /\ phase = "shutdown_pool"
    /\ removeRaises \cap stopRaises = {}
    /\ log' = log \o steps
    /\ sandboxes' = [i \in Indices |->
          [sandboxes[i] EXCEPT !.container = After(steps, i, @)]]
    /\ workers' = <<>>
    /\ container' = <<>>
    /\ running' = <<>>
    /\ phase' = "stopped"
    /\ pool' = "None"
    /\ UNCHANGED <<serveVars, callbacks, received, kafka>>

\* SpecLife: one run of the process from start to stop.  Every step of start
\* and stop that can raise may do so, each spawn ends in each of its ways,
\* and while the service is up POST /run-code requests with print(2+2) are
\* served by sandboxes that answer 200; the request topic is empty.
LifeOutcomes(cde) ==
    {[kind |-> "reply", status |-> 200, body |-> JsonBody(ExecutorBody(200, cde))]}

NextLife ==
    \/ \E clientOk, networkOk, imageOk, listOk \in BOOLEAN :
          GetPool(clientOk, networkOk, imageOk, listOk)
    \/ \E index \in Indices, how \in SpawnOutcomes : SpawnSingleWorker(index, how)
    \/ SpawnWorkers
    \/ \E how \in KafkaOutcomes : KafkaStart(how)
    \/ \E r \in Http, cde \in PoolPrograms : phase = "serving" /\ RunCode(r, cde)
    \/ \E r \in Http : Post(r)
    \/ \E r \in Http : \E o \in LifeOutcomes(code[r]) : Reply(r, o, TRUE)
    \/ \E r \in Http : Release(r)
    \/ \E r \in Http : HttpReturn(r)
    \/ \E r \in Http : HttpDone(r)
    \/ KafkaStop
    \/ \E stopRaises, removeRaises \in SUBSET DOMAIN workers :
          ShutdownPool(stopRaises, removeRaises)

SpecLife == Starting /\ [][NextLife]_vars


\* SpecObserve: the event bus with observers that fail.  The service is up
\* with broadcast_to_dashboard and up to MaxObservers further observers
\* registered through add_event_callback, each of which returns, raises, or
\* hands back a coroutine that raises; POST /run-code requests are served
\* while round-trips end in every way execute_code tells apart.
RECURSIVE ObserverLists(_)
ObserverLists(n) ==
    IF n = 0 THEN {<<>>}
    ELSE ObserverLists(n - 1)
         \cup {Append(l, Observer("observer", b)) :
                  l \in {x \in ObserverLists(n - 1) : Len(x) = n - 1},
                  b \in Behaviours}

Observed ==
    \E extra \in ObserverLists(MaxObservers) :
        Serving(<<broadcast_to_dashboard>> \o extra)

NextObserve ==
    \/ \E r \in Http, cde \in PoolPrograms : RunCode(r, cde)
    \/ \E r \in Http : Post(r)
    \/ \E r \in Http : \E o \in PoolOutcomes(code[r], timeout[r]) : Reply(r, o, TRUE)
    \/ \E r \in Http : Release(r)
    \/ \E r \in Http : HttpReturn(r)
    \/ \E r \in Http : HttpDone(r)

SpecObserve == Observed /\ [][NextObserve]_vars


\* ------------------------------------------------- health_check, /health
\* health_check, the head of the loop body for slot k: worker_status with
\* the busy flag as it is before the probe is sent.
worker_status(ws, cs, k) ==
    [name |-> cs[k], busy |-> ws[k].busy, healthy |-> FALSE]

\* health_check, the rest of the loop body once the probe of slot k has
\* come back: healthy is whether it answered 200; a healthy slot is counted
\* as busy or available by worker.busy as it is now, any other as unhealthy.
\* It writes to results alone.
probed(results, status, k, healthy) ==
    [results EXCEPT
        !.unhealthy = IF healthy THEN @ ELSE @ + 1,
        !.busy = IF healthy /\ workers[k].busy THEN @ + 1 ELSE @,
        !.available = IF healthy /\ ~workers[k].busy THEN @ + 1 ELSE @,
        !.workers = Append(@, [status EXCEPT !.healthy = healthy])]

\* health(): return {"status": "healthy", "pool": pool_health}, and in the
\* except branch JSONResponse(503, {"status": "unhealthy", "error": str(e)}).
Healthy(pool_health) ==
    [status |-> 200, body |-> [status |-> "healthy", pool |-> pool_health]]
Unhealthy(e) ==
    [status |-> 503, body |-> [status |-> "unhealthy", error |-> e]]

\* health_check up to its first probe, on the pool as it stands: results
\* with total = len(self.workers); without workers the loop is empty and the
\* snapshot is returned at once.
health_check(ws, cs) ==
    LET results == [NoSnapshot EXCEPT !.total = Len(ws)] IN
    IF ws = <<>>
    THEN [pc |-> "done", results |-> results, resp |-> Healthy(results)]
    ELSE [pc |-> "probing", results |-> results, resp |-> NoResult,
          status |-> worker_status(ws, cs, 1)]

\* GET /health with a pool object at hand: get_pool returns _pool as it is,
\* initialized or not, and health_check starts.
Health(h) ==
    /\ h = HealthHandler
    /\ health[h].pc = "idle"
    /\ pool # "None"
    /\ health' = [health EXCEPT ![h] = health_check(workers, container)]
    /\ UNCHANGED <<staticCheck, workers, pc, code, timeout, worker, outcome,
                   result, events, resp, request_id, published, delivered,
                   running, callbacks, received, lifeVars, pool, down, otherVars,
                   dashboard_connections, stats, history, callVars>>

HealthProbeRestarts(h) ==
    /\ health[h].pc = "probing"
    /\ LET k == Len(health[h].results.workers) + 1
           healthy == container[k] \notin down
           results == probed(health[h].results, health[h].status, k, healthy)
       IN /\ health' = [health EXCEPT ![h] =
                IF k < Len(workers)
                THEN [@ EXCEPT !.results = results, !.status = worker_status(workers, container, k + 1)]
                ELSE [pc |-> "done", results |-> results, resp |-> Healthy(results)]]
          /\ down' = down \ {container[k]}
    /\ UNCHANGED <<staticCheck, workers, pc, code, timeout, worker, outcome,
                   result, events, resp, request_id, published, delivered,
                   running, callbacks, received, lifeVars, pool, otherVars,
                   dashboard_connections, stats, history, callVars>>

\* The probe of the slot at hand comes back, answered 200 unless the
\* sandbox is down; the loop goes on to the next slot or health_check
\* returns and the handler builds its answer.
HealthProbe(h) ==
    /\ health[h].pc = "probing"
    /\ LET k == Len(health[h].results.workers) + 1
           healthy == container[k] \notin down
           results == probed(health[h].results, health[h].status, k, healthy)
       IN health' = [health EXCEPT ![h] =
             IF k < Len(workers)
             THEN [@ EXCEPT !.results = results, !.status = worker_status(workers, container, k + 1)]
             ELSE [pc |-> "done", results |-> results, resp |-> Healthy(results)]]
    /\ UNCHANGED <<staticCheck, workers, pc, code, timeout, worker, outcome,
                   result, events, resp, request_id, published, delivered,
                   running, callbacks, received, lifeVars, pool, down, otherVars,
                   dashboard_connections, stats, history, callVars>>

\* The answer of GET /health has gone out.
HealthDone(h) ==
    /\ h = HealthHandler
    /\ health[h].pc = "done"
    /\ health' = [health EXCEPT ![h] = NoHealth]
    /\ UNCHANGED <<staticCheck, workers, pc, code, timeout, worker, outcome,
                   result, events, resp, request_id, published, delivered,
                   running, callbacks, received, lifeVars, pool, down, otherVars,
                   dashboard_connections, stats, history, callVars>>

\* A sandbox stops answering /health (its process hangs or dies), or
\* answers again.
SandboxDown(i) ==
    /\ i \in {container[k] : k \in DOMAIN container} \ down
    /\ down' = down \cup {i}
    /\ UNCHANGED <<staticCheck, workers, pc, code, timeout, worker, outcome,
                   result, events, resp, request_id, published, delivered,
                   running, callbacks, received, lifeVars, pool, health, otherVars,
                   dashboard_connections, stats, history, callVars>>
SandboxUp(i) ==
    /\ i \in down
    /\ down' = down \ {i}
    /\ UNCHANGED <<staticCheck, workers, pc, code, timeout, worker, outcome,
                   result, events, resp, request_id, published, delivered,
                   running, callbacks, received, lifeVars, pool, health, otherVars,
                   dashboard_connections, stats, history, callVars>>

\* GET /health with _pool None: get_pool creates the pool object, assigns
\* it to _pool and awaits initialize, every spawn ending as hows tells.
\* When initialize raises, the handler answers 503 and _pool keeps the
\* object; otherwise health_check starts on the new pool.
HealthCreatesPool(h, clientOk, networkOk, imageOk, listOk, hows) ==
    LET steps == initialize(clientOk, networkOk, imageOk, listOk)
        reached == steps[Len(steps)].ok
        sb == IF reached
              THEN [i \in Indices |->
                      [container |-> IF hows[i] = "run raised" THEN "absent"
                                     ELSE "running",
                       result |-> IF hows[i] = "ready" THEN "WorkerContainer"
                                  ELSE "None"]]
              ELSE sandboxes
        spawned == IF reached THEN Spawned(sb, 0) ELSE <<>>
        ws == [k \in DOMAIN spawned |-> IdleWorker]
    IN
    /\ h = HealthHandler
    /\ health[h].pc = "idle"
    /\ pool = "None"
    /\ sandboxes' = sb
    /\ container' = spawned
    /\ workers' = ws
    /\ running' = [k \in DOMAIN spawned |-> 0]
    /\ log' = log \o steps
                  \o (IF reached THEN <<Step("_spawn_workers", -1, spawned # <<>>)>>
                      ELSE <<>>)
    /\ pool' = IF spawned = <<>> THEN "created" ELSE "initialized"
    /\ health' = [health EXCEPT ![h] =
          IF spawned = <<>>
          THEN [pc |-> "done", results |-> NoSnapshot,
                resp |-> Unhealthy(log'[Len(log')].step)]
          ELSE health_check(ws, spawned)]
    /\ UNCHANGED <<staticCheck, pc, code, timeout, worker, outcome, result,
                   events, resp, request_id, published, delivered, callbacks,
                   received, phase, kafka, down, otherVars, dashboard_connections,
                   stats, history, callVars>>

\* SpecLazy: the handlers without lifespan.  No pool exists until the
\* first GET /health makes get_pool create one; every step of initialize
\* and every spawn may fail, sandboxes stop and start answering, and
\* GET /health is asked again and again.
NextLazy ==
    \/ \E clientOk, networkOk, imageOk, listOk \in BOOLEAN :
          \E hows \in [Indices -> SpawnOutcomes] :
             HealthCreatesPool(HealthHandler, clientOk, networkOk, imageOk,
                               listOk, hows)
    \/ Health(HealthHandler)
    \/ HealthProbe(HealthHandler)
    \/ HealthDone(HealthHandler)
    \/ \E i \in Indices : SandboxDown(i)
    \/ \E i \in Indices : SandboxUp(i)

SpecLazy == Starting /\ [][NextLazy]_vars


\* SpecHealth: the pool under requests and health checks.  POST /run-code
\* requests are served while GET /health probes the slots one by one and
\* sandboxes stop and start answering.
NextHealth ==
    \/ \E r \in Http, cde \in PoolPrograms : RunCode(r, cde)
    \/ \E r \in Http : Post(r)
    \/ \E r \in Http : \E o \in PoolOutcomes(code[r], timeout[r]) : Reply(r, o, TRUE)
    \/ \E r \in Http : Release(r)
    \/ \E r \in Http : HttpReturn(r)
    \/ \E r \in Http : HttpDone(r)
    \/ Health(HealthHandler)
    \/ HealthProbe(HealthHandler)
    \/ HealthDone(HealthHandler)
    \/ \E i \in Indices : SandboxDown(i)
    \/ \E i \in Indices : SandboxUp(i)

SpecHealth == Init /\ [][NextHealth]_vars

\* ------------------------------------------------- websocket_dashboard
\* websocket_dashboard up to its first suspension: accept, append the
\* connection to dashboard_connections, get_pool (the pool exists), and
\* health_check up to its first probe.
WsAccept(w) ==
    /\ websocket[w].pc = "closed"
    /\ pool = "initialized"
    /\ websocket' = [websocket EXCEPT ![w] = [pc |-> "connected", msgs |-> <<>>]]
    /\ dashboard_connections' = Append(dashboard_connections, w)
    /\ health' = [health EXCEPT ![w] = health_check(workers, container)]
    /\ UNCHANGED <<staticCheck, workers, pc, code, timeout, worker, outcome,
                   result, events, resp, request_id, published, delivered,
                   running, callbacks, received, lifeVars, pool, down, otherVars,
                   stats, history, lock, writes, shown>>

\* A send of the handler itself: the message joins those of the connection.
WsSend(w, type, next) ==
    /\ websocket' = [websocket EXCEPT
          ![w] = [pc |-> next, msgs |-> Append(@.msgs, Message(type, "handler"))]]
    /\ UNCHANGED <<staticCheck, workers, pc, code, timeout, worker, outcome,
                   result, events, resp, request_id, published, delivered,
                   running, callbacks, received, lifeVars, pool, down, otherVars,
                   dashboard_connections, stats, history, lock, writes, shown>>

\* health_check has returned: send {"type": "pool_status", ...}.
WsPoolStatus(w) ==
    /\ websocket[w].pc = "connected"
    /\ health[w].pc = "done"
    /\ health' = [health EXCEPT ![w] = NoHealth]
    /\ WsSend(w, "pool_status", "stats")

\* get_stats and send {"type": "stats", ...}.
WsStats(w) ==
    /\ websocket[w].pc = "stats"
    /\ WsSend(w, "stats", "history")
    /\ UNCHANGED health

\* get_execution_history(50) and send {"type": "history", ...}.
WsHistory(w) ==
    /\ websocket[w].pc = "history"
    /\ WsSend(w, "history", "open")
    /\ UNCHANGED health

\* The keep-alive loop: receive_text times out after 30 s and health_check
\* starts again.
WsTimeout(w) ==
    /\ websocket[w].pc = "open"
    /\ health' = [health EXCEPT ![w] = health_check(workers, container)]
    /\ websocket' = [websocket EXCEPT ![w].pc = "periodic"]
    /\ UNCHANGED <<staticCheck, workers, pc, code, timeout, worker, outcome,
                   result, events, resp, request_id, published, delivered,
                   running, callbacks, received, lifeVars, pool, down, otherVars,
                   dashboard_connections, stats, history, lock, writes, shown>>

\* The periodic pool_status update.
WsPeriodic(w) ==
    /\ websocket[w].pc = "periodic"
    /\ health[w].pc = "done"
    /\ health' = [health EXCEPT ![w] = NoHealth]
    /\ WsSend(w, "pool_status", "open")

\* receive_text raises WebSocketDisconnect: the finally branch removes the
\* connection from dashboard_connections.
WsDisconnect(w) ==
    /\ websocket[w].pc = "open"
    /\ websocket' = [websocket EXCEPT ![w].pc = "closed"]
    /\ dashboard_connections' =
          SelectSeq(dashboard_connections, LAMBDA x : x # w)
    /\ broadcast' = [broadcast EXCEPT !.stayed = @ \ {w}]
    /\ UNCHANGED <<staticCheck, workers, pc, code, timeout, worker, outcome,
                   result, events, resp, request_id, published, delivered,
                   running, callbacks, received, lifeVars, pool, down, health,
                   now, chat, stats, history, lock, writes, shown>>

\* SpecDash: dashboards connect, are sent their snapshots and disconnect
\* while POST /run-code requests are served.  A request starts only while
\* every connection has fewer than MaxFrames messages.
NextDash ==
    \/ \E r \in Http, cde \in PoolPrograms :
          /\ \A w \in Conns : Len(websocket[w].msgs) < MaxFrames
          /\ RunCode(r, cde)
    \/ \E r \in Http : Post(r)
    \/ \E r \in Http : \E o \in PoolOutcomes(code[r], timeout[r]) : Reply(r, o, TRUE)
    \/ \E r \in Http : Release(r)
    \/ \E r \in Http : HttpReturn(r)
    \/ \E r \in Http : HttpDone(r)
    \/ \E w \in Conns : WsAccept(w)
    \/ \E w \in Conns : HealthProbe(w)
    \/ \E w \in Conns : WsPoolStatus(w)
    \/ \E w \in Conns : WsStats(w)
    \/ \E w \in Conns : WsHistory(w)
    \/ \E w \in Conns :
          /\ Len(websocket[w].msgs) < MaxFrames
          /\ WsTimeout(w)
    \/ \E w \in Conns : WsPeriodic(w)
    \/ \E w \in Conns : WsDisconnect(w)

SpecDash == Init /\ [][NextDash]_vars

\* ------------------------------------- the originator of queue requests
\* KafkaManager.execute_code up to its wait: a fresh request_id (uuid4), a
\* future stored under it in _pending_requests, and the request sent.
ChatExecute(rid) ==
    /\ chat.future[rid] = "unused"
    /\ chat' = [chat EXCEPT !.pending = @ \cup {rid}, !.future[rid] = "waiting"]
    /\ UNCHANGED <<staticCheck, workers, pc, code, timeout, worker, outcome,
                   result, events, resp, request_id, published, delivered,
                   running, callbacks, received, lifeVars, pool, down, health,
                   now, broadcast, dashboard_connections, stats, history,
                   callVars>>

\* asyncio.wait_for(future, timeout + 5) runs out: the future is cancelled,
\* and execute_code has yet to resume in its except branch.
ChatTimeout(rid) ==
    /\ chat.future[rid] = "waiting"
    /\ chat' = [chat EXCEPT !.future[rid] = "cancelled"]
    /\ UNCHANGED <<staticCheck, workers, pc, code, timeout, worker, outcome,
                   result, events, resp, request_id, published, delivered,
                   running, callbacks, received, lifeVars, pool, down, health,
                   now, broadcast, dashboard_connections, stats, history,
                   callVars>>

\* except asyncio.TimeoutError: self._pending_requests.pop(request_id, None)
\* and the 408 result is returned.
ChatGiveUp(rid) ==
    /\ chat.future[rid] = "cancelled"
    /\ chat' = [chat EXCEPT !.pending = @ \ {rid}, !.future[rid] = "timed out"]
    /\ UNCHANGED <<staticCheck, workers, pc, code, timeout, worker, outcome,
                   result, events, resp, request_id, published, delivered,
                   running, callbacks, received, lifeVars, pool, down, health,
                   now, broadcast, dashboard_connections, stats, history,
                   callVars>>

\* _consume_responses takes the message at place k of the response topic;
\* messages under different keys may lie on different partitions, so that
\* any message not yet handled may be the next.
ChatConsume(k) ==
    /\ k \in DOMAIN published \ chat.read
    /\ chat' = consume_response(chat, published, k)
    /\ UNCHANGED <<staticCheck, workers, pc, code, timeout, worker, outcome,
                   result, events, resp, request_id, published, delivered,
                   running, callbacks, received, lifeVars, pool, down, health,
                   now, broadcast, dashboard_connections, stats, history,
                   callVars>>

\* The requests of the originator on the request topic: each carries the
\* request_id made for it.
ChatMessages ==
    {QueueRequest(rid, cde, TIMEOUT \div 2) :
        rid \in RequestIds, cde \in {PrintProgram, ImportOsProgram}}
RequestIdOf(msg) == decrypt_request(msg).request.request_id

\* SpecChat: the originator and the queue consumer.  The originator makes
\* requests, gives up on them after its timeout and handles the responses;
\* the consumer is delivered requests the originator has made, any of them
\* more than once (the topic delivers at least once), and publishes its
\* responses.
NextChat ==
    \/ \E rid \in RequestIds : ChatExecute(rid)
    \/ \E rid \in RequestIds : ChatTimeout(rid)
    \/ \E rid \in RequestIds : ChatGiveUp(rid)
    \/ \E k \in 1..MaxMsgs : ChatConsume(k)
    \/ \E msg \in ChatMessages :
          /\ chat.future[RequestIdOf(msg)] # "unused"
          /\ Consume(msg, TRUE)
    \/ Post(Queue)
    \/ \E o \in Outcomes(code[Queue], timeout[Queue]) : Reply(Queue, o, TRUE)
    \/ Release(Queue)
    \/ QueueReturn
    \/ Publish(TRUE, TRUE)

SpecChat == Init /\ [][NextChat]_vars

\* ------------------------------------------------- the pool, followed
\* time.time() moves on.
Tick ==
    /\ now < MaxClock
    /\ now' = now + 1
    /\ UNCHANGED <<staticCheck, workers, pc, code, timeout, worker, outcome,
                   result, events, resp, request_id, published, delivered,
                   running, callbacks, received, lifeVars, pool, down, health,
                   chat, broadcast, dashboard_connections, stats, history,
                   callVars>>

\* The pool once lifespan has started it, its statistics and its history
\* followed from their values after __init__.
Tracked == ServingWith(<<broadcast_to_dashboard>>, NoStats, NoHistory)

\* The round-trips of SpecTrack: the executor answers 200, or the round-trip
\* runs out.
TrackOutcomes(cde, t) ==
    {o \in PoolOutcomes(cde, t) :
        \/ o.kind = "timeout"
        \/ o.kind = "reply" /\ o.status = 200}

\* SpecTrack: POST /run-code requests and queue requests are served while
\* time passes.  Requests start while fewer than MaxExecs executions have
\* been counted.
NextTrack ==
    \/ \E r \in Http, cde \in PoolPrograms :
          /\ stats.total_executions < MaxExecs
          /\ RunCode(r, cde)
    \/ \E msg \in PoolMessages :
          /\ stats.total_executions < MaxExecs
          /\ Consume(msg, TRUE)
    \/ \E c \in Callers : Post(c)
    \/ \E c \in Callers : \E o \in TrackOutcomes(code[c], timeout[c]) : Reply(c, o, TRUE)
    \/ \E c \in Callers : Release(c)
    \/ \E r \in Http : HttpReturn(r)
    \/ \E r \in Http : HttpDone(r)
    \/ QueueReturn
    \/ Publish(TRUE, TRUE)
    \/ Tick

SpecTrack == Tracked /\ [][NextTrack]_vars

\* SpecProbe: POST /run-code requests are served and counted while time
\* passes, GET /health probes the slots one by one and sandboxes stop and
\* start answering.
NextProbe ==
    \/ \E r \in Http, cde \in PoolPrograms :
          /\ stats.total_executions < MaxExecs
          /\ RunCode(r, cde)
    \/ \E r \in Http : Post(r)
    \/ \E r \in Http : \E o \in PoolOutcomes(code[r], timeout[r]) : Reply(r, o, TRUE)
    \/ \E r \in Http : Release(r)
    \/ \E r \in Http : HttpReturn(r)
    \/ \E r \in Http : HttpDone(r)
    \/ Health(HealthHandler)
    \/ HealthProbe(HealthHandler)
    \/ HealthDone(HealthHandler)
    \/ \E i \in Indices : SandboxDown(i)
    \/ \E i \in Indices : SandboxUp(i)
    \/ Tick

SpecProbe == Tracked /\ [][NextProbe]_vars

\* ------------------------------------------- the pool with a long history
\* The pool after max_history - 1 executions of the sample program, all
\* requested over HTTP and run in the first sandbox before the clock moved,
\* every other one of them a success: the history one record short of full
\* and the statistics as those executions leave them.
PriorExecutions == max_history - 1
PriorRecord(k) ==
    [caller |-> 1, code |-> PrintProgram, worker_name |-> 0, start_time |-> 0,
     end_time |-> 0, duration_ms |-> 0, success |-> k % 2 = 1]
PriorHistory ==
    [followed |-> TRUE, records |-> [k \in 1..PriorExecutions |-> PriorRecord(k)]]
PriorStats ==
    [followed |-> TRUE, total_executions |-> PriorExecutions,
     total_exec_time_ms |-> 0,
     total_lines |-> PriorExecutions * Lines(PrintProgram),
     success_count |-> Cardinality({k \in 1..PriorExecutions : PriorRecord(k).success})]
LongServing == ServingWith(<<broadcast_to_dashboard>>, PriorStats, PriorHistory)

\* SpecLong: POST /run-code requests and queue requests are served by a
\* pool whose history is about to fill.  Requests start while fewer than
\* MaxExecs further executions have been counted.
NextLong ==
    \/ \E r \in Http, cde \in PoolPrograms :
          /\ stats.total_executions < PriorExecutions + MaxExecs
          /\ RunCode(r, cde)
    \/ \E msg \in PoolMessages :
          /\ stats.total_executions < PriorExecutions + MaxExecs
          /\ Consume(msg, TRUE)
    \/ \E c \in Callers : Post(c)
    \/ \E c \in Callers : \E o \in TrackOutcomes(code[c], timeout[c]) : Reply(c, o, TRUE)
    \/ \E c \in Callers : Release(c)
    \/ \E r \in Http : HttpReturn(r)
    \/ \E r \in Http : HttpDone(r)
    \/ QueueReturn
    \/ Publish(TRUE, TRUE)

SpecLong == LongServing /\ [][NextLong]_vars

\* SpecCount: POST /run-code requests and queue requests with programs the
\* screener passes and programs it rejects are served and counted while
\* time passes, their round-trips ending with the executor's 200 or 408, a
\* transport timeout or a lost connection.
CountOutcomes(cde, t) ==
    {o \in PoolOutcomes(cde, t) : o.kind = "reply" => o.status \in {200, 408}}
CountMessages == {QueueRequest("abc", cde, TIMEOUT \div 2) : cde \in Programs}
NextCount ==
    \/ \E r \in Http, cde \in Programs :
          /\ stats.total_executions < MaxExecs
          /\ RunCode(r, cde)
    \/ \E msg \in CountMessages :
          /\ stats.total_executions < MaxExecs
          /\ Consume(msg, TRUE)
    \/ \E c \in Callers : Post(c)
    \/ \E c \in Callers : \E o \in CountOutcomes(code[c], timeout[c]) : Reply(c, o, TRUE)
    \/ \E c \in Callers : Release(c)
    \/ \E r \in Http : HttpReturn(r)
    \/ \E r \in Http : HttpDone(r)
    \/ QueueReturn
    \/ Publish(TRUE, TRUE)
    \/ Tick

\* The pool once lifespan has started it, its statistics followed.
Counted == ServingWith(<<broadcast_to_dashboard>>, NoStats, NotFollowed)

SpecCount == Counted /\ [][NextCount]_vars

\* ------------------------------------------- stop with a request in flight
\* lifespan after yield while the consumer task is somewhere in its loop:
\* kafka_runner.stop() cancels the task and awaits it.  CancelledError is
\* raised in the task where it is suspended; it is no Exception, so that
\* neither the except clauses of execute_code nor those of _execute_code and
\* of the loop body catch it, and the loop's except asyncio.CancelledError
\* ends the task.  Nothing that execute_code had yet to do is done.
KafkaStopInFlight ==
    /\ phase = "serving"
    /\ \A r \in Http : pc[r] = "idle"
    /\ kafka.enabled /\ kafka.task = "running"
    /\ log' = log \o stop(kafka)
    /\ kafka' = [kafka EXCEPT !.task = "cancelled", !.consumer = "stopped",
                              !.producer = "stopped"]
    /\ pc' = [pc EXCEPT ![Queue] = IF @ = "idle" THEN @ ELSE "cancelled"]
    /\ phase' = "shutdown_pool"
    /\ UNCHANGED <<staticCheck, code, timeout, worker, outcome, result, events,
                   resp, request_id, published, delivered, sideVars, stats,
                   history, callVars, workers, running, callbacks, received,
                   sandboxes, container, pool>>

\* SpecCancel: the queue consumer serves requests until the process is told
\* to stop, at any point of the consumer's loop; the pool is shut down after
\* the consumer.
NextCancel ==
    \/ \E msg \in PoolMessages : phase = "serving" /\ Consume(msg, TRUE)
    \/ Post(Queue)
    \/ \E o \in PoolOutcomes(code[Queue], timeout[Queue]) : Reply(Queue, o, TRUE)
    \/ Release(Queue)
    \/ QueueReturn
    \/ Publish(TRUE, TRUE)
    \/ KafkaStopInFlight
    \/ \E stopRaises, removeRaises \in SUBSET DOMAIN workers :
          ShutdownPool(stopRaises, removeRaises)

SpecCancel == Init /\ [][NextCancel]_vars

\* ------------------------------------------------ the consumer's sequencing
\* SpecOrder: the queue ingress next to the HTTP ingress.  Messages carry
\* either request id and every program, the broker may refuse any send, and
\* a handler's requests run at the same time.
OrderMessages ==
    {QueueRequest(rid, cde, TIMEOUT \div 2) : rid \in RequestIds, cde \in Programs}

NextOrder ==
    \/ \E r \in Http : RunCode(r, PrintProgram)
    \/ \E msg \in OrderMessages, sent \in BOOLEAN : Consume(msg, sent)
    \/ \E c \in Callers : Post(c)
    \/ \E c \in Callers : \E o \in CountOutcomes(code[c], timeout[c]) : Reply(c, o, TRUE)
    \/ \E c \in Callers : Release(c)
    \/ \E r \in Http : HttpReturn(r)
    \/ \E r \in Http : HttpDone(r)
    \/ QueueReturn
    \/ \E sent, errSent \in BOOLEAN : Publish(sent, errSent)

SpecOrder == Init /\ [][NextOrder]_vars

\* ------------------------------------------- the originator's pending map
\* KafkaManager.execute_code up to its send: the future is made and stored
\* under the new request_id, and producer.send_and_wait is awaited.
ChatCreate(rid) ==
    /\ chat.future[rid] = "unused"
    /\ chat' = [chat EXCEPT !.pending = @ \cup {rid}, !.future[rid] = "created"]
    /\ UNCHANGED <<staticCheck, workers, pc, code, timeout, worker, outcome,
                   result, events, resp, request_id, published, delivered,
                   running, callbacks, received, lifeVars, pool, down, health,
                   now, broadcast, dashboard_connections, stats, history,
                   callVars>>

\* A send error that leaves the entry in the map.
ChatSendKeepsEntry(rid, sent) ==
    /\ chat.future[rid] = "created"
    /\ chat' = [chat EXCEPT !.future[rid] = IF sent THEN "waiting" ELSE "failed"]
    /\ UNCHANGED <<staticCheck, workers, pc, code, timeout, worker, outcome,
                   result, events, resp, request_id, published, delivered,
                   running, callbacks, received, lifeVars, pool, down, health,
                   now, broadcast, dashboard_connections, stats, history,
                   callVars>>

\* send_and_wait returns and wait_for(future, timeout + 5) begins, or it
\* raises: except Exception pops the request_id and the 500 result is
\* returned.
ChatSend(rid, sent) ==
    /\ chat.future[rid] = "created"
    /\ chat' = IF sent
               THEN [chat EXCEPT !.future[rid] = "waiting"]
               ELSE [chat EXCEPT !.pending = @ \ {rid}, !.future[rid] = "failed"]
    /\ UNCHANGED <<staticCheck, workers, pc, code, timeout, worker, outcome,
                   result, events, resp, request_id, published, delivered,
                   running, callbacks, received, lifeVars, pool, down, health,
                   now, broadcast, dashboard_connections, stats, history,
                   callVars>>

\* SpecPending: the originator and the queue consumer, the originator's
\* sends included.  A request reaches the consumer once its send was made
\* (a send that raised may have reached the broker all the same).
NextPending ==
    \/ \E rid \in RequestIds : ChatCreate(rid)
    \/ \E rid \in RequestIds, sent \in BOOLEAN : ChatSend(rid, sent)
    \/ \E rid \in RequestIds : ChatTimeout(rid)
    \/ \E rid \in RequestIds : ChatGiveUp(rid)
    \/ \E k \in 1..MaxMsgs : ChatConsume(k)
    \/ \E msg \in ChatMessages :
          /\ chat.future[RequestIdOf(msg)] \notin {"unused", "created"}
          /\ Consume(msg, TRUE)
    \/ Post(Queue)
    \/ \E o \in Outcomes(code[Queue], timeout[Queue]) : Reply(Queue, o, TRUE)
    \/ Release(Queue)
    \/ QueueReturn
    \/ Publish(TRUE, TRUE)

SpecPending == Init /\ [][NextPending]_vars

\* --------------------------------------- a broadcast followed step by step
\* The dashboard connections of SpecBroadcast.
Sockets == 1..(NumConns + 1)
Registered == {dashboard_connections[k] : k \in DOMAIN dashboard_connections}

\* _emit_event calls broadcast_to_dashboard(event) with connections
\* registered: message and disconnected are made and the for loop begins.
BroadcastStart(event) ==
    /\ broadcast.pc = "idle"
    /\ dashboard_connections # <<>>
    /\ \A w \in DOMAIN websocket : Len(websocket[w].msgs) < MaxFrames
    /\ broadcast' = [pc |-> "sending", message |-> event, index |-> 0,
                     disconnected |-> <<>>, tried |-> {}, stayed |-> Registered]
    /\ UNCHANGED <<staticCheck, workers, pc, code, timeout, worker, outcome,
                   result, events, resp, request_id, published, delivered,
                   running, callbacks, received, lifeVars, pool, down, health,
                   now, chat, dashboard_connections, stats, history, callVars>>

\* One turn of for ws in dashboard_connections: the list iterator hands out
\* the element at its index, in the list as it is now, and moves on by one;
\* await ws.send_text(message) returns (sent) or raises, and then ws joins
\* disconnected.
BroadcastSend(sent) ==
    /\ broadcast.pc = "sending"
    /\ broadcast.index < Len(dashboard_connections)
    /\ LET w == dashboard_connections[broadcast.index + 1] IN
          /\ websocket' =
                IF sent
                THEN [websocket EXCEPT ![w].msgs =
                         Append(@, Message(broadcast.message, "broadcast"))]
                ELSE websocket
          /\ broadcast' = [broadcast EXCEPT
                !.index = @ + 1,
                !.tried = @ \cup {w},
                !.disconnected = IF sent THEN @ ELSE Append(@, w)]
    /\ UNCHANGED <<staticCheck, workers, pc, code, timeout, worker, outcome,
                   result, events, resp, request_id, published, delivered,
                   running, callbacks, received, lifeVars, pool, down, health,
                   now, chat, dashboard_connections, stats, history, lock,
                   writes, shown>>

\* The iterator is past the end of the list: the loop over disconnected
\* removes each of its connections still in dashboard_connections, and
\* broadcast_to_dashboard returns.
BroadcastEnd ==
    /\ broadcast.pc = "sending"
    /\ broadcast.index >= Len(dashboard_connections)
    /\ dashboard_connections' =
          SelectSeq(dashboard_connections,
                    LAMBDA x : \A k \in DOMAIN broadcast.disconnected :
                                  broadcast.disconnected[k] # x)
    /\ broadcast' = [broadcast EXCEPT !.pc = "done"]
    /\ UNCHANGED <<staticCheck, workers, pc, code, timeout, worker, outcome,
                   result, events, resp, request_id, published, delivered,
                   running, callbacks, received, lifeVars, pool, down, health,
                   now, chat, stats, history, callVars>>

\* SpecBroadcast: dashboards connect, are sent their snapshots and
\* disconnect while one event of the pool is broadcast to them; any send of
\* the broadcast may fail.
PoolEvents == {"execution_start", "pool_status"}
Watched == ServingOn(<<broadcast_to_dashboard>>, NotFollowed, NotFollowed, Sockets)

NextBroadcast ==
    \/ \E event \in PoolEvents : BroadcastStart(event)
    \/ \E sent \in BOOLEAN : BroadcastSend(sent)
    \/ BroadcastEnd
    \/ \E w \in Sockets : WsAccept(w)
    \/ \E w \in Sockets : HealthProbe(w)
    \/ \E w \in Sockets : WsPoolStatus(w)
    \/ \E w \in Sockets : WsStats(w)
    \/ \E w \in Sockets : WsHistory(w)
    \/ \E w \in Sockets : WsDisconnect(w)

SpecBroadcast == Watched /\ [][NextBroadcast]_vars

\* ------------------------------------------------- GET /dashboard/history
\* lst[start:] of Python: a negative start counts from the end and stops at
\* the front, any other start stops at the end; what is left of the list
\* from there on.
SliceFrom(lst, start) ==
    LET n == Len(lst)
        lo == IF start < 0
              THEN (IF n + start < 0 THEN 0 ELSE n + start)
              ELSE (IF start > n THEN n ELSE start)
    IN SubSeq(lst, lo + 1, n)
Reversed(lst) == [k \in DOMAIN lst |-> lst[Len(lst) - k + 1]]

\* get_execution_history(limit): one dict for each e in
\* reversed(self._execution_history[-limit:]).
HistoryEntry(e) ==
    [code |-> e.code, worker |-> e.worker_name, start_time |-> e.start_time,
     duration_ms |-> e.duration_ms, success |-> e.success]
get_execution_history(h, limit) ==
    LET recent == Reversed(SliceFrom(h.records, -limit)) IN
    [k \in DOMAIN recent |-> HistoryEntry(recent[k])]

\* dashboard_history(limit): the handler answers with
\* pool.get_execution_history(limit); limit is any int of the query string.
MaxLimit == 3
DashboardHistory(r, limit) ==
    /\ r \in Http
    /\ pc[r] = "idle"
    /\ history.followed
    /\ resp' = [resp EXCEPT ![r] =
          [status |-> 200, limit |-> limit,
           body |-> get_execution_history(history, limit)]]
    /\ pc' = [pc EXCEPT ![r] = "done"]
    /\ UNCHANGED <<lifeVars, pool, sideVars, stats, history, callbacks,
                   staticCheck, workers, code, timeout, worker, outcome, result,
                   events, received, request_id, published, delivered, running,
                   callVars>>

\* SpecHistory: the pool with its history followed from the start, under
\* requests of both ingresses and GET /dashboard/history with every limit
\* from 0 to MaxLimit.
NextHistory ==
    \/ \E r \in Http, cde \in PoolPrograms :
          /\ stats.total_executions < MaxExecs
          /\ RunCode(r, cde)
    \/ \E msg \in PoolMessages :
          /\ stats.total_executions < MaxExecs
          /\ Consume(msg, TRUE)
    \/ \E c \in Callers : Post(c)
    \/ \E c \in Callers : \E o \in TrackOutcomes(code[c], timeout[c]) : Reply(c, o, TRUE)
    \/ \E c \in Callers : Release(c)
    \/ \E r \in Http : HttpReturn(r)
    \/ \E r \in Http : HttpDone(r)
    \/ QueueReturn
    \/ Publish(TRUE, TRUE)
    \/ \E r \in Http, limit \in 0..MaxLimit : DashboardHistory(r, limit)

SpecHistory == Tracked /\ [][NextHistory]_vars

\* ------------------------------------------------------------------ claims
\* The calls of execute_code that hold a slot: between acquire and release.
InFlight(c) == pc[c] \in {"started", "posted", "finalized"}
Holders == {c \in Callers : InFlight(c)}
Busy == {i \in DOMAIN workers : workers[i].busy}
\* The calls that have come back from execute_code with a sandbox outcome.
Returned(c) == pc[c] \in {"released", "done", "send"} /\ worker[c] # 0

\* C1: under every interleaving of the HTTP handlers and the queue consumer,
\* the number of busy slots equals the number of executions between acquire
\* and release, every such execution holds a busy slot that carries it and
\* nothing else, and no two executions hold the same slot.
C1_BusyCountIsInFlight ==
    /\ Cardinality(Busy) = Cardinality(Holders)
    /\ \A c \in Holders :
          /\ worker[c] \in Busy
          /\ workers[worker[c]].current_execution = {c}
    /\ \A c, d \in Holders : c # d => worker[c] # worker[d]

\* Two executions in flight at once, on two slots.
C1_TwoInFlight ==
    \E c, d \in Holders : c # d /\ worker[c] \in Busy /\ worker[d] \in Busy

\* C2: a call of execute_code that acquired a slot and has come back, in
\* whichever way its round-trip ended, no longer holds it: the slot does not
\* carry the execution, and it is busy only when another execution in
\* flight has acquired it since.
C2_ReturnedCallReleased ==
    \A c \in Callers :
        Returned(c) =>
            /\ outcome[c] # NoOutcome
            /\ c \notin workers[worker[c]].current_execution
            /\ workers[worker[c]].busy =>
                  \E d \in Holders : worker[d] = worker[c]
                                     /\ workers[worker[c]].current_execution = {d}

\* A call whose sandbox answered with an unparseable body has returned and
\* its slot is idle with nothing attached.
C2_ReleasedAfterBadBody ==
    \E c \in Callers :
        /\ Returned(c)
        /\ outcome[c].kind = "reply" /\ ~outcome[c].body.json
        /\ workers[worker[c]] = IdleWorker

\* C3: with a pool of one slot, a request that starts while another
\* execution holds the slot is answered in that same step with 503 "no
\* available workers", without taking the slot or waiting for it; a request
\* that starts while the slot is free takes it, and is answered with the
\* sandbox's stdout, stderr and return_code when the sandbox answers 200.
C3_Saturated(c) ==
    /\ pc'[c] = (IF c \in Http THEN "done" ELSE "send")
    /\ worker'[c] = 0
    /\ workers' = workers
    /\ events'[c] = <<>>
    /\ IF c \in Http
       THEN resp'[c] = [status |-> 503, body |-> [detail |-> "no available workers"]]
       ELSE /\ resp'[c].status_code = 503
            /\ resp'[c].error = "no available workers"

C3_Starts(c) ==
    /\ Len(workers) = 1
    /\ pc[c] = "idle" /\ pc'[c] # "idle"
    /\ StaticCheckHttp(code'[c]) = <<>>

C3_OneSlotOneHolder ==
    /\ [][\A c \in Callers :
            C3_Starts(c) =>
                IF Holders # {} THEN C3_Saturated(c)
                ELSE pc'[c] = "started" /\ worker'[c] = 1]_vars
    /\ [](\A c \in Callers :
            (Len(workers) = 1 /\ pc[c] \in {"done", "send"} /\ worker[c] = 1
             /\ execSuccess(outcome[c])) =>
                /\ (c \in Http => resp[c].status = 200)
                /\ (c = Queue => "error" \notin DOMAIN resp[c])
                /\ (IF c \in Http THEN resp[c].body.stdout ELSE resp[c].stdout)
                      = outcome[c].body.data.stdout)

\* Pool of one: a request has been answered 503 while the other execution
\* still holds the slot.
C3_SaturationWhileHeld ==
    /\ Len(workers) = 1
    /\ \E c \in Callers, d \in Holders :
          /\ c # d
          /\ pc[c] \in {"done", "send"}
          /\ result[c] = NoWorkers
          /\ worker[c] = 0

\* The response POST /run-code builds for a program and the dict
\* execute_code returned for it, and the response the queue ingress builds.
HttpResponseFor(cde, res) ==
    IF StaticCheckHttp(cde) # <<>> THEN Forbidden(StaticCheckHttp(cde))
    ELSE run_code_response(res)
QueueResponseFor(cde, res) ==
    IF StaticCheckQueue(cde) # <<>> THEN ForbiddenResult(StaticCheckQueue(cde))
    ELSE execute_code_response(res)

\* A request the screener turned away: the static check is on and reports
\* at least one violation for the request's program.
Rejected(c) == staticCheck /\ pc[c] # "idle" /\ ast_static_check(code[c]) # <<>>

\* C4: POST /run-code answers 200 with the sandbox's stdout, stderr and
\* return_code when the sandbox answered 200, 408 when the sandbox answered
\* 408, 503 when no slot was idle, 408 for a transport timeout, which comes
\* only after the deadline, and 500 for a network failure before the deadline.
C4_RunCodeStatus ==
    \A r \in Http :
        (pc[r] = "done" /\ ~Rejected(r)) =>
            LET o == outcome[r] IN
            /\ (o.kind = "reply" /\ o.body.json /\ o.status = 200) =>
                  resp[r] = [status |-> 200,
                             body |-> [stdout |-> o.body.data.stdout,
                                       stderr |-> o.body.data.stderr,
                                       return_code |-> o.body.data.return_code]]
            /\ (o.kind = "reply" /\ o.body.json /\ o.status = 408) =>
                  resp[r].status = 408
            /\ worker[r] = 0 => o = NoOutcome /\ resp[r].status = 503
            /\ o.kind = "timeout" =>
                  resp[r].status = 408 /\ o.elapsed > timeout[r]
            /\ (o.kind = "network" /\ o.elapsed <= timeout[r]) =>
                  resp[r].status = 500

\* POST /run-code has answered 408 for a transport timeout.
C4_TransportTimeout408 ==
    \E r \in Http :
        /\ pc[r] = "done"
        /\ outcome[r].kind = "timeout"
        /\ outcome[r].elapsed > timeout[r]
        /\ resp[r].status = 408

\* C5: whatever status and body the sandbox returns and whatever transport
\* failure occurs, the status reported to the caller on either ingress is
\* one of 200, 403, 408, 503, 500, and a sandbox status other than 200 and
\* 408 is reported as 500.
Classifications == {200, 403, 408, 503, 500}
Reported(c) == IF c \in Http THEN resp[c].status ELSE QueueStatus(resp[c])
SameClassification(http, queue) ==
    IF "error" \in DOMAIN queue
    THEN http.status # 200 /\ queue.status_code = http.status
    ELSE /\ http.status = 200
         /\ queue.stdout = http.body.stdout
         /\ queue.stderr = http.body.stderr
         /\ queue.return_code = http.body.return_code

C8_IngressesClassifyAlike ==
    /\ pc[Queue] = "send" =>
          SameClassification(HttpResponseFor(code[Queue], result[Queue]), resp[Queue])
    /\ \A r \in Http :
          pc[r] = "done" =>
              SameClassification(resp[r], QueueResponseFor(code[r], result[r]))

\* The queue ingress has built the response to a request whose sandbox
\* answered 408, and it carries status_code 408.
C8_QueueAnswers408 ==
    /\ pc[Queue] = "send"
    /\ outcome[Queue].kind = "reply" /\ outcome[Queue].status = 408
    /\ outcome[Queue].body.json
    /\ resp[Queue].status_code = 408

\* C9: with the static check on, a request whose program the screener
\* reports a violation for is answered 403 with the list of violations, on
\* either ingress, and has acquired no slot, sent nothing to a sandbox and
\* emitted no execution event.
C9_RejectedBeforePool ==
    \A c \in Callers :
        Rejected(c) =>
            /\ pc[c] = (IF c \in Http THEN "done" ELSE "send")
            /\ IF c \in Http
               THEN resp[c] = [status |-> 403,
                               body |-> [error |-> "forbidden constructs found",
                                         details |-> ast_static_check(code[c])]]
               ELSE /\ resp[c].status_code = 403
                    /\ resp[c].details = ast_static_check(code[c])
            /\ worker[c] = 0
            /\ outcome[c] = NoOutcome
            /\ result[c] = NoResult
            /\ events[c] = <<>>
            /\ \A i \in DOMAIN workers : c \notin workers[i].current_execution

\* The queue ingress has rejected import os; open("/etc/passwd") with 403
\* while every slot is idle.
C9_QueueRejects ==
    /\ Rejected(Queue)
    /\ pc[Queue] = "send"
    /\ resp[Queue].status_code = 403
    /\ Busy = {}

\* The number of entries of a sequence that satisfy a test.
Count(seq, Test(_)) == Cardinality({i \in DOMAIN seq : Test(seq[i])})

\* C6: once the consumer is through with the messages it has taken, the
\* response topic holds, for every request_id, exactly one message carrying
\* it for each request delivered with it, keyed by it, whatever other
\* messages were consumed before or after.
C6_OneResponsePerRequest ==
    pc[Queue] = "idle" =>
        \A rid \in RequestIds :
            LET Carries(m) == m.request_id = rid
                Asks(d) == d.decoded /\ d.request_id = rid
            IN /\ Count(published, Carries) = Count(delivered, Asks)
               /\ \A i \in DOMAIN published :
                     Carries(published[i]) => published[i].key = rid

\* C7: the step that consumes a message which fails decryption or JSON
\* parsing publishes nothing, whatever was consumed before it.
C7_UndecodableDropped ==
    [][(/\ Len(delivered') = Len(delivered) + 1
        /\ ~delivered'[Len(delivered')].decoded)
           => published' = published]_vars

\* The rules of the screener, node by node: how many times a node matches
\* (an import statement once per forbidden module it names), and the number
\* of matches in a tree.
Matches(node) ==
    CASE node.type = "Import" ->
            Cardinality({i \in DOMAIN node.names :
                            TopLevel(node.names[i].name) \in FORBIDDEN_MODULES})
      [] node.type = "ImportFrom" ->
            IF node.module # <<>> /\ TopLevel(node.module) \in FORBIDDEN_MODULES
            THEN 1 ELSE 0
      [] node.type = "Call" ->
            IF \/ node.func.type = "Name" /\ node.func.id \in FORBIDDEN_FUNCTIONS
               \/ node.func.type = "Attribute"
                  /\ node.func.attr \in FORBIDDEN_FUNCTIONS
            THEN 1 ELSE 0
      [] node.type = "Attribute" -> IF node.attr \in FORBIDDEN_ATTRS THEN 1 ELSE 0
      [] node.type = "With" -> 1
      [] OTHER -> 0

RECURSIVE MatchesIn(_)
RECURSIVE MatchesInAll(_)
MatchesIn(node) == Matches(node) + MatchesInAll(node.children)
MatchesInAll(nodes) ==
    IF nodes = <<>> THEN 0
    ELSE MatchesIn(Head(nodes)) + MatchesInAll(Tail(nodes))

Range(seq) == {seq[i] : i \in DOMAIN seq}

\* C10: for a program that parses, the screener's list has one entry for
\* every match of a rule in the tree, so it is empty exactly when nothing
\* matches and import os; open("/etc/passwd") gets at least two entries,
\* "import os" among them; and the list a request is rejected with is the
\* list of its program text, whatever the state of the service.
C10_OneViolationPerMatch ==
    \A r \in Http :
        (pc[r] # "idle" /\ code[r].parses) =>
            LET found == ast_static_check(code[r]) IN
            /\ Len(found) = MatchesIn(code[r].tree)
            /\ found = <<>> <=> MatchesIn(code[r].tree) = 0
            /\ code[r] = ImportOsProgram =>
                  Len(found) >= 2 /\ "import os" \in Range(found)
            /\ (staticCheck /\ pc[r] = "done") =>
                  IF found = <<>> THEN resp[r].status # 403
                  ELSE resp[r].status = 403 /\ resp[r].body.details = found

\* import os; open("/etc/passwd") has been rejected with both violations.
C10_ImportOsStacks ==
    \E r \in Http :
        /\ pc[r] = "done"
        /\ code[r] = ImportOsProgram
        /\ resp[r].status = 403
        /\ resp[r].body.details = <<"import os", "open">>

\* The nodes of a program's tree, and the context-manager constructs of the
\* language: the with statement and the async with statement.
Nodes(cde) == Range(walk(<<cde.tree>>))
ContextManagers == {"With", "AsyncWith"}

\* C11: a program that parses and holds a context-manager construct of any
\* kind anywhere in its tree gets at least one violation from the screener,
\* and with the static check on it is rejected and never reaches a sandbox.
C11_EveryContextManagerFlagged ==
    \A r \in Http :
        (/\ pc[r] # "idle"
         /\ code[r].parses
         /\ \E node \in Nodes(code[r]) : node.type \in ContextManagers) =>
            /\ ast_static_check(code[r]) # <<>>
            /\ staticCheck => pc[r] = "done" /\ resp[r].status = 403

Payloads ==
    {RequestPayload(rid, cde, tmo) :
        rid \in RequestIds \cup {None}, cde \in Programs, tmo \in QueueTimeouts}
Last(seq) == seq[Len(seq)]

\* C13: a request the originator encrypted opens under the request-direction
\* key to the payload submitted, and the consumer works on that payload's
\* request_id, code and timeout; a response the runner encrypted opens under
\* the response-direction key to the payload published, with the request_id
\* of the request; and neither direction's decryption accepts a message
\* encrypted with the other direction's key.
C13_RequestRoundTrip(p) ==
    /\ decrypt_request(encrypt_request(p)) = [ok |-> TRUE, request |-> p]
    /\ ~decrypt_response(encrypt_request(p)).ok
    /\ Last(delivered').decoded
    /\ request_id' = Get(p, "request_id", None)
    /\ code'[Queue] = p.code
    /\ timeout'[Queue] = p.timeout

C14_ErrorKeyInBody ==
    \A r \in Http :
        (pc[r] = "done" /\ resp[r].status \in {408, 503, 500}) =>
            /\ "error" \in DOMAIN resp[r].body
            /\ resp[r].status = 408 => resp[r].body.error = "execution timed out"
            /\ resp[r].status = 503 => resp[r].body.error = "no available workers"
            /\ resp[r].status = 500 => resp[r].body.error = result[r].error

\* C15: no sandbox ever executes more than one submitted program: the pool
\* posts a program to a sandbox only when the program it posted there
\* earlier has ended, however the earlier round-trip ended.
C15_OneProgramPerSandbox ==
    \A i \in DOMAIN running : running[i] <= 1

\* C16: the deadline with which an execution is sent to a sandbox, the
\* timeout field of a queue request included, never exceeds the server's
\* configured TIMEOUT.
C16_DeadlineBounded ==
    \A c \in Callers : InFlight(c) => timeout[c] <= TIMEOUT

\* The places in the log of the steps named step, and of the steps on
\* containers.
Places(step) == {k \in DOMAIN log : log[k].step = step}
ContainerPlaces == Places("container.stop") \cup Places("container.remove")
Before(A, B) == \A a \in A, b \in B : a < b

\* The order of shutdown: cancel, await, consumer.stop, producer.stop, and
\* only then the containers.
ShutdownInOrder ==
    /\ Before(Places("_consumer_task.cancel"), Places("await _consumer_task"))
    /\ Before(Places("await _consumer_task"), Places("consumer.stop"))
    /\ Before(Places("consumer.stop"), Places("producer.stop"))
    /\ Before(Places("_consumer_task.cancel") \cup Places("await _consumer_task")
              \cup Places("consumer.stop") \cup Places("producer.stop"),
              ContainerPlaces)
    /\ kafka.task # "running" /\ kafka.consumer # "started"
    /\ kafka.producer # "started"

\* The sandboxes this process created: containers.run returned for them.
Created == {i \in Indices : sandboxes[i].container # "absent"}

\* C17: when shutdown has completed, its steps were taken in the order
\* cancel the consumer task, await it, stop the consumer, stop the producer,
\* then stop and remove the sandboxes; every sandbox this process created
\* has been stopped and removed, and the pool holds no slots.
C17_ShutdownStopsEverySandbox ==
    phase = "stopped" =>
        /\ ShutdownInOrder
        /\ \A i \in Created : sandboxes[i].container = "removed"
        /\ workers = <<>>

\* The order alone, and the slots' sandboxes when no stop or remove raised.
C17_OrderHolds == phase = "stopped" => ShutdownInOrder /\ workers = <<>>
C17_LeakWithoutDockerFailure ==
    phase = "stopped" /\ (\A k \in DOMAIN log : log[k].ok)
        => \A i \in Created : sandboxes[i].container = "removed"

\* The spawns that became ready, and the startup steps that raised.
Ready == {i \in Indices : sandboxes[i].result = "WorkerContainer"}
Raised(step) == \E k \in DOMAIN log : log[k].step = step /\ ~log[k].ok
InitializeOver == phase \notin {"startup", "spawn"}
PoolUp == phase \in {"kafka", "serving", "shutdown_pool"}

\* C18: once pool initialization is over, it has failed exactly when the
\* network creation failed, the image build failed, or no spawn became
\* ready; after a failure no request is ever served; and when a spawn became
\* ready the pool is up with exactly the ready sandboxes as its slots, in
\* index order.
C18_InitFailsExactlyWithoutSandbox ==
    /\ [](InitializeOver =>
            (phase = "failed" <=>
                \/ Raised("_create_worker_network")
                \/ Raised("_build_worker_image")
                \/ Ready = {}))
    /\ [](phase = "failed" =>
            \A c \in Callers : pc[c] = "idle" /\ resp[c] = NoResp)
    /\ [][phase = "failed" => phase' = "failed"]_vars
    /\ [](PoolUp =>
            /\ Ready # {}
            /\ {container[k] : k \in DOMAIN container} = Ready
            /\ \A j, k \in DOMAIN container : j < k => container[j] < container[k]
            /\ DOMAIN workers = DOMAIN container)

\* The service is up with a pool smaller than POOL_SIZE: a spawn failed and
\* a later index became ready.
C18_PartialPoolServes ==
    /\ phase = "serving"
    /\ \E i, j \in Indices : i < j /\ i \notin Ready /\ j \in Ready
    /\ \E r \in Http : pc[r] = "done" /\ resp[r].status = 200

\* C19: when the start of the queue ingress has failed (the producer or the
\* consumer did not start), startup is not aborted: the service is serving,
\* or has been serving and is shutting down, with the pool initialize built,
\* and a POST /run-code that got a sandbox is answered 200 as ever.
C19_QueueFailureKeepsHttp ==
    Raised("kafka_runner.start") =>
        /\ phase \in {"serving", "shutdown_pool", "stopped"}
        /\ kafka.task = "none"
        /\ phase \in {"serving", "shutdown_pool"} =>
              workers # <<>> /\ DOMAIN workers = DOMAIN container
        /\ \A r \in Http :
              pc[r] = "done" =>
                 resp[r] = run_code_response(IF worker[r] = 0 THEN NoWorkers
                                             ELSE SubprocessRun(code[r]))

\* A request answered 200 by a service whose queue ingress did not start.
C19_ServesWithoutQueue ==
    /\ Raised("kafka_runner.start")
    /\ kafka.consumer # "started"
    /\ \E r \in Http : pc[r] = "done" /\ resp[r].status = 200

\* The observers whose call fails, and the requests whose execution is over.
Failing == {k \in DOMAIN callbacks : callbacks[k].behaviour # "returns"}
Executed(c) == pc[c] \in {"released", "done"} /\ worker[c] # 0

\* C20: with an observer that fails, every registered observer is still
\* called with every event a call of execute_code emits, no exception leaves
\* the emission, and the execution returns the result of its round-trip and
\* has released its slot.
C20_ObserverFailureIsolated ==
    Failing # {} =>
        \A c \in Callers :
            /\ \A k \in DOMAIN callbacks : received[c][k] = events[c]
            /\ pc[c] # "raised"
            /\ Executed(c) =>
                  /\ result[c] = execResult(outcome[c])
                  /\ c \notin workers[worker[c]].current_execution
                  /\ workers[worker[c]].busy =>
                        \E d \in Callers \ {c} : InFlight(d) /\ worker[d] = worker[c]
            /\ c \in Http /\ pc[c] = "done" /\ worker[c] # 0 =>
                  resp[c] = run_code_response(execResult(outcome[c]))

\* A request answered 200 with its slot free, where an observer registered
\* before a well-behaved one fails and the latter still got all four events.
C20_LaterObserverServed ==
    \E r \in Http, j, k \in DOMAIN callbacks :
        /\ j < k /\ j \in Failing /\ k \notin Failing
        /\ pc[r] = "done" /\ resp[r].status = 200
        /\ ~workers[worker[r]].busy
        /\ received[r][k] =
              <<"execution_start", "pool_status", "execution_end", "pool_status">>

\* C21: GET /health answers 503 whenever the pool is not initialized, an
\* initialization that has failed included, and answers with the health
\* snapshot only when the pool is initialized.
C21_HealthNeedsInitializedPool ==
    health[HealthHandler].pc = "done" =>
        IF pool = "initialized"
        THEN health[HealthHandler].resp = Healthy(health[HealthHandler].results)
        ELSE health[HealthHandler].resp.status = 503

\* The first answer after a failed initialization is 503.
C21_FirstAnswer503 ==
    health[HealthHandler].pc = "done" /\ pool = "created"
        /\ health[HealthHandler].resp.status = 503

\* The state of slot k as health_check tells it: unhealthy when its sandbox
\* fails the probe, else busy or idle by its busy flag.
SlotState(k) ==
    IF container[k] \in down THEN "unhealthy"
    ELSE IF workers[k].busy THEN "busy" ELSE "idle"

\* C22: a slot is in exactly one of the states idle, busy, unhealthy, and
\* acquire hands out only a slot that is idle: never one that is busy, never
\* one whose sandbox fails the health probe.
C22_OnlyIdleSlotHandedOut ==
    [][\A c \in Callers :
          pc[c] = "idle" /\ pc'[c] = "started"
             => SlotState(worker'[c]) = "idle"]_vars

\* The part about busy slots alone: acquire never hands out a busy slot.
C22_BusySlotNeverHandedOut ==
    [][\A c \in Callers :
          pc[c] = "idle" /\ pc'[c] = "started"
             => ~workers[worker'[c]].busy]_vars

\* C23: on every dashboard connection the first three messages are the
\* initial pool_status, stats and history snapshots of its handler, in that
\* order; no event of the pool reaches it before them.
InitialSnapshots == <<"pool_status", "stats", "history">>
C23_SnapshotsComeFirst ==
    \A w \in Conns :
       \A k \in DOMAIN websocket[w].msgs :
          k <= 3 => websocket[w].msgs[k] = Message(InitialSnapshots[k], "handler")

\* C23, the part that holds: the handler's own three snapshots go out in
\* the order pool_status, stats, history.
C23_HandlerSendsInOrder ==
    \A w \in Conns :
       LET own == SelectSeq(websocket[w].msgs, LAMBDA m : m.by = "handler") IN
       \A k \in DOMAIN own : k <= 3 => own[k].type = InitialSnapshots[k]

\* C24: the queue consumer publishes a response for every delivery, also of
\* a request_id it was delivered before; when the originator handles a
\* response whose request_id is pending with its waiter still waiting, the
\* waiter is resolved with that response and the id removed; any other
\* response resolves nothing; no response changes the waiter, the result or
\* the pending entry of another request_id; and a result, once set, stays,
\* in whatever order the responses are handled.
C24_FirstResponseResolves ==
    /\ [](pc[Queue] = "idle" => Len(published) = Len(delivered))
    /\ [][\A k \in 1..MaxMsgs :
            (k \notin chat.read /\ k \in chat'.read) =>
               LET rid == published[k].request_id
                   first == rid \in chat.pending /\ chat.future[rid] = "waiting"
               IN /\ first => /\ chat'.future[rid] = "resolved"
                              /\ chat'.result[rid] = k
                  /\ ~first => /\ chat'.future = chat.future
                               /\ chat'.result = chat.result
                  /\ rid \notin chat'.pending
                  /\ \A other \in RequestIds \ {rid} :
                        /\ chat'.future[other] = chat.future[other]
                        /\ chat'.result[other] = chat.result[other]
                        /\ (other \in chat'.pending) = (other \in chat.pending)]_vars
    /\ [][\A rid \in RequestIds :
            chat.result[rid] # 0 => chat'.result[rid] = chat.result[rid]]_vars

\* C24 witness: a request_id was delivered twice and answered twice, the
\* later response was handled first and resolved the waiter, the earlier
\* one was handled after it, and another request is still pending.
C24_DuplicateIgnored ==
    \E rid \in RequestIds :
       /\ Len(delivered) = 2 /\ Len(published) = 2
       /\ delivered[1].request_id = rid /\ delivered[2].request_id = rid
       /\ published[1].request_id = rid /\ published[2].request_id = rid
       /\ chat.result[rid] = 2
       /\ chat.read = {1, 2}
       /\ \E other \in RequestIds \ {rid} : other \in chat.pending

\* C24 witness, second case: a response handled after its waiter timed out.
C24_LateResponseIgnored ==
    \E rid \in RequestIds :
       /\ chat.future[rid] = "timed out"
       /\ chat.result[rid] = 0
       /\ \E k \in chat.read : published[k].request_id = rid

\* C25: every write a call makes to the busy, last_used and
\* current_execution fields of its slot is made while the call holds the
\* lock of the pool.
C25_WritesUnderLock ==
    \A c \in Callers : \A w \in writes[c] : w.locked

\* C25, the part that holds: the writes to busy and last_used, in acquire
\* and in release, are made under the lock.
C25_BusyWrittenUnderLock ==
    \A c \in Callers :
       \A w \in writes[c] : w.field \in {"busy", "last_used"} => w.locked

\* C26: while a call is anywhere between its acquire and its return (its
\* observers being called, its sandbox round-trip in flight), and while a
\* health probe is out, nobody holds the lock of the pool: it is taken and
\* left within acquire and within release.
C26_LockFreeWhileAwaiting ==
    (\/ \E c \in Callers : pc[c] # "idle"
     \/ health[HealthHandler].pc = "probing")
    => lock = Free

\* C26 witness: a sandbox round-trip is in flight and a health probe is out,
\* and the lock is free.
C26_RoundTripAndProbeOut ==
    /\ \E c \in Callers : pc[c] = "posted"
    /\ health[HealthHandler].pc = "probing"
    /\ lock = Free

\* C27: a step in which acquire hands a slot to a call hands out the slot of
\* lowest index among those whose busy flag is false, whatever their
\* last_used, leaves it busy and stamped with the time of the step, and
\* leaves every other slot as it was; a step in which acquire returns None
\* finds every slot busy and changes no slot.
C27_AcquireFirstIdleInOrder ==
    [][\A c \in Callers :
          /\ (worker'[c] # 0 /\ worker[c] = 0) =>
                LET i == worker'[c] IN
                /\ ~workers[i].busy
                /\ \A j \in DOMAIN workers : j < i => workers[j].busy
                /\ workers'[i].busy
                /\ workers'[i].last_used = now
                /\ \A j \in DOMAIN workers : j # i => workers'[j] = workers[j]
          /\ (pc[c] = "idle" /\ result'[c] = NoWorkers) =>
                /\ \A j \in DOMAIN workers : workers[j].busy
                /\ workers' = workers]_vars

\* C27 witness: a call holds slot 1, which had run an execution that
\* started after the clock moved, while slot 2 is idle and was never
\* stamped: the slot handed out was not the least recently used idle one.
C27_RecentlyUsedSlotHandedOut ==
    /\ Len(workers) >= 2
    /\ \E c \in Callers : pc[c] = "started" /\ worker[c] = 1
    /\ ~workers[2].busy /\ workers[2].last_used = 0
    /\ \E k \in DOMAIN history.records :
          /\ history.records[k].worker_name = container[1]
          /\ history.records[k].start_time > 0

\* C27 witness, second case: acquire returned None with every slot busy.
C27_NoneWhenAllBusy ==
    /\ \E c \in Callers : result[c] = NoWorkers
    /\ \A j \in DOMAIN workers : workers[j].busy

\* C28: on every pool that is reached and for every slot of it, releasing
\* the slot twice in a row gives the pool that releasing it once gives, with
\* the slot's busy flag false and no execution attached to it, and releasing
\* a slot that is idle gives the pool as it is.
C28_ReleaseIdempotent ==
    \A i \in DOMAIN workers :
       LET once == release(workers, i) IN
       /\ release(once, i) = once
       /\ ~once[i].busy /\ once[i].current_execution = {}
       /\ \A j \in DOMAIN workers : j # i => once[j] = workers[j]
       /\ ~workers[i].busy => once = workers

\* C28 witness: one slot is busy with an execution attached, so that
\* releasing it changes the pool, and another slot is idle.
C28_BusyAndIdleSlot ==
    /\ \E i \in DOMAIN workers :
          /\ workers[i].busy /\ workers[i].current_execution # {}
          /\ release(workers, i) # workers
    /\ \E j \in DOMAIN workers : ~workers[j].busy

EventsOfExecution ==
    <<"execution_start", "pool_status", "execution_end", "pool_status">>
C30_EventOrderOfExecution ==
    \A c \in Callers :
       /\ Len(events[c]) <= 4
       /\ events[c] = SubSeq(EventsOfExecution, 1, Len(events[c]))
       /\ \A k \in DOMAIN callbacks : received[c][k] = events[c]
       /\ Len(events[c]) >= 1 => worker[c] # 0
       /\ Len(events[c]) >= 2 => Len(shown[c]) >= 1 /\ shown[c][1]
       /\ Len(events[c]) >= 3 =>
             /\ outcome[c] # NoOutcome
             /\ \E k \in DOMAIN history.records :
                   /\ history.records[k].caller = c
                   /\ history.records[k].worker_name = container[worker[c]]
       /\ Len(events[c]) = 4 =>
             /\ Len(shown[c]) = 2 /\ ~shown[c][2]
             /\ Written("busy", c, c) \in writes[c]
       /\ result[c] = NoWorkers => events[c] = <<>>

\* C30 witness: a call has emitted all four events, its slot shown busy in
\* the first pool_status and idle in the last.
C30_AllFourEmitted ==
    \E c \in Callers :
       /\ events[c] = EventsOfExecution
       /\ shown[c] = <<TRUE, FALSE>>
       /\ received[c][1] = EventsOfExecution

\* C30 witness, second case: a call was turned away for want of an idle
\* slot and has emitted nothing, while the other calls' events stand.
C30_NoSlotNoEvent ==
    \E c \in Callers :
       /\ result[c] = NoWorkers
       /\ events[c] = <<>>
       /\ \E d \in Callers \ {c} : events[d] # <<>>

\* C31: the history never holds more than max_history records; the step in
\* which an execution that acquired a slot finishes puts its record at the
\* end of the history, dropping the oldest record when the history was full
\* and no record otherwise; and no other step changes the history.
Finishes(c) == Len(events[c]) = 2 /\ Len(events'[c]) = 3
C31_HistoryBoundedFifo ==
    /\ [](Len(history.records) <= max_history)
    /\ [][\A c \in Callers :
            Finishes(c) =>
               LET e == history'.records[Len(history'.records)] IN
               /\ e.caller = c
               /\ e.worker_name = container[worker[c]]
               /\ e.success = execSuccess(outcome'[c])
               /\ history'.records =
                     IF Len(history.records) < max_history
                     THEN Append(history.records, e)
                     ELSE Append(Tail(history.records), e)]_vars
    /\ [][(\A c \in Callers : ~Finishes(c)) => history' = history]_vars

\* C31 witness: two executions finished on a history one short of full;
\* the history is full, the oldest record was dropped and the two new
\* records close it.
C31_OldestEvicted ==
    /\ Len(history.records) = max_history
    /\ stats.total_executions = PriorExecutions + 2
    /\ history.records[1] = PriorRecord(2)
    /\ history.records[max_history - 1].caller # history.records[max_history].caller

\* C32: the step in which an execution that acquired a slot finishes adds
\* one to total_executions, one to success_count exactly when the sandbox
\* answered with status 200, the program's line count to total_lines and a
\* duration that is not negative to total_exec_time_ms; no other step, a
\* request turned away for want of a slot or rejected by the screener among
\* them, changes a counter; success_count never exceeds total_executions;
\* and while total_executions is 0 the mean duration, the mean line count
\* and the success rate that get_stats derives are 0.
C32_CountersCountFinished ==
    /\ [](/\ stats.success_count <= stats.total_executions
          /\ stats.total_executions = 0 =>
                /\ get_stats(stats).avg_exec_time_ms = 0
                /\ get_stats(stats).avg_lines = 0
                /\ get_stats(stats).success_rate = 0)
    /\ [][\A c \in Callers :
            Finishes(c) =>
               /\ stats'.total_executions = stats.total_executions + 1
               /\ stats'.success_count =
                     stats.success_count +
                     (IF outcome'[c].kind = "reply" /\ outcome'[c].status = 200
                      THEN 1 ELSE 0)
               /\ stats'.total_lines = stats.total_lines + Lines(code[c])
               /\ stats'.total_exec_time_ms >= stats.total_exec_time_ms]_vars
    /\ [][(\A c \in Callers : ~Finishes(c)) => stats' = stats]_vars

\* C32 witness: two executions have finished, one of them a success, one
\* of them after the clock moved, while a request turned away for want of a
\* slot has yet to be answered.
C32_TwoCountedOneTurnedAway ==
    /\ stats.total_executions = 2
    /\ stats.success_count = 1
    /\ stats.total_exec_time_ms > 0
    /\ \E c \in Callers : result[c] = NoWorkers

\* C32 witness, second case: an execution was counted and the request the
\* screener has just rejected was not.
C32_RejectedNotCounted ==
    /\ stats.total_executions = 1
    /\ \E r \in Http :
          /\ pc[r] # "idle" /\ worker[r] = 0 /\ result[r] # NoWorkers
          /\ resp[r] = Forbidden(ast_static_check(ImportOsProgram))

\* C33: when the task running an execution is cancelled while it waits for
\* the sandbox's reply or for an observer, the slot it acquired is released:
\* every busy slot carries an execution that is in flight.
C33_CancelledExecutionReleases ==
    \A i \in DOMAIN workers :
       workers[i].busy => \E c \in Holders : worker[c] = i

\* C33, the part that holds: a consumer stopped between two messages leaves
\* no slot busy.
C33_IdleConsumerLeavesNoSlotBusy ==
    (phase = "shutdown_pool" /\ pc[Queue] = "idle") =>
        \A i \in DOMAIN workers : ~workers[i].busy

\* C34: the queue ingress handles messages one at a time.  A message is
\* taken only when the handling of the one before is over (its response
\* published or its publish attempt failed, its slot released); the slots
\* busy at any moment are at most those of the HTTP requests in flight and
\* one more; and every response goes to the end of the response topic and
\* answers the message consumed last, so that responses are published in
\* consumption order.
QueueHoldsNoSlot == worker[Queue] = 0 /\ pc[Queue] = "idle"
C34_OneMessageAtATime ==
    /\ [](Cardinality({i \in DOMAIN workers : workers[i].busy})
            <= Cardinality({r \in Http : InFlight(r)}) + 1)
    /\ [][delivered' # delivered =>
            /\ QueueHoldsNoSlot
            /\ \A i \in DOMAIN workers :
                  workers[i].busy => \E r \in Http : InFlight(r) /\ worker[r] = i]_vars
    /\ [][published' # published =>
            /\ Len(published') = Len(published) + 1
            /\ SubSeq(published', 1, Len(published)) = published
            /\ delivered # <<>>
            /\ published'[Len(published')].request_id
                  = delivered[Len(delivered)].request_id]_vars

\* C34, witness: two messages with different ids were consumed and answered
\* in that order while an HTTP request held the other slot.
C34_TwoAnsweredInOrder ==
    /\ Len(delivered) = 2 /\ Len(published) = 2
    /\ delivered[1].request_id = "abc" /\ delivered[2].request_id = "xyz"
    /\ published[1].request_id = "abc" /\ published[2].request_id = "xyz"
    /\ \E r \in Http : InFlight(r)

\* C35: the pending map holds the request_ids still awaited.  An id is in
\* the map from before its request is sent until its future is resolved or
\* execute_code gives up; once execute_code has its result, its timeout or
\* its send error, the id is not in the map; and a response on the topic
\* whose request is still awaited finds its id in the map.
Awaited == {rid \in RequestIds : chat.future[rid] \in {"created", "waiting"}}
GivingUp == {rid \in RequestIds : chat.future[rid] = "cancelled"}
C35_PendingIsAwaited ==
    /\ Awaited \subseteq chat.pending
    /\ chat.pending \subseteq Awaited \cup GivingUp
    /\ \A k \in DOMAIN published \ chat.read :
          published[k].request_id \in Awaited => published[k].request_id \in chat.pending
    /\ \A k \in DOMAIN delivered :
          delivered[k].request_id \in RequestIds =>
             chat.future[delivered[k].request_id] # "unused"

\* C35, witness: one request ended in a send error, the other got its
\* result, and the map is empty.
C35_SendErrorAndResultReturned ==
    /\ chat.future["abc"] = "failed"
    /\ chat.future["xyz"] = "resolved"
    /\ chat.pending = {}

\* C35, witness: a timeout was returned for a request whose response came
\* too late.
C35_TimedOutAndLateResponse ==
    /\ chat.future["abc"] = "timed out"
    /\ \E k \in chat.read : published[k].request_id = "abc"
    /\ "abc" \notin chat.pending

\* C36: every snapshot a health check returns is consistent in itself, also
\* when executions start or finish while its probes are out: available +
\* busy + unhealthy = total, busy is the number of listed workers that are
\* healthy and busy, available the number that are healthy and not busy.
ListedAs(results, busy) ==
    Cardinality({k \in DOMAIN results.workers :
                    results.workers[k].healthy /\ results.workers[k].busy = busy})
C36_SnapshotConsistent ==
    \A h \in Probers :
       health[h].pc = "done" =>
          LET results == health[h].results IN
          /\ results.available + results.busy + results.unhealthy = results.total
          /\ results.busy = ListedAs(results, TRUE)
          /\ results.available = ListedAs(results, FALSE)

\* C36, the part that holds: the three counts of a returned snapshot add up
\* to its total, and one worker is listed for each.
C36_CountsAddUp ==
    \A h \in Probers :
       health[h].pc = "done" =>
          LET results == health[h].results IN
          /\ results.available + results.busy + results.unhealthy = results.total
          /\ Len(results.workers) = results.total

\* C37: an event is sent to every connection that stays registered for the
\* whole of its broadcast, whatever connections are accepted, fail on send
\* or disconnect meanwhile: when broadcast_to_dashboard has returned,
\* send_text was called on every connection registered ever since it began.
C37_BroadcastReachesAllRegistered ==
    broadcast.pc = "done" => broadcast.stayed \subseteq broadcast.tried

\* C37, the part that holds: when broadcast_to_dashboard returns, every
\* connection whose send failed is out of dashboard_connections, and a
\* connection on which send_text returned has the message as its last.
C37_FailedRemovedSentDelivered ==
    /\ [][broadcast.pc = "sending" /\ broadcast'.pc = "done" =>
            \A k \in DOMAIN broadcast.disconnected :
               \A j \in DOMAIN dashboard_connections' :
                  dashboard_connections'[j] # broadcast.disconnected[k]]_vars
    /\ [][broadcast.pc = "sending" /\ broadcast'.index = broadcast.index + 1 =>
            \A w \in broadcast'.tried \ broadcast.tried :
               broadcast'.disconnected = broadcast.disconnected =>
                  /\ websocket'[w].msgs # <<>>
                  /\ websocket'[w].msgs[Len(websocket'[w].msgs)]
                        = Message(broadcast.message, "broadcast")]_vars

\* C38: during initialization the image build and the cleanup of leftover
\* sandboxes are both over, in that order, before the first sandbox of the
\* run is created, and no cleanup runs once a sandbox of the run exists;
\* the pool is initialized only after _spawn_workers has succeeded, which
\* comes after the cleanup.
Done(step) == {k \in DOMAIN log : log[k].step = step /\ log[k].ok}
Ran(step) == {k \in DOMAIN log : log[k].step = step}
SandboxesOfRun == {i \in DOMAIN sandboxes : sandboxes[i].container = "running"}
C38_CleanupBeforeFirstSandbox ==
    /\ [](SandboxesOfRun # {} =>
             \E b \in Done("_build_worker_image"), c \in Done("_cleanup_old_workers") :
                b < c)
    /\ [][Len(log') > Len(log) /\
          (\E k \in (Len(log) + 1)..Len(log') : log'[k].step = "_cleanup_old_workers")
             => SandboxesOfRun = {}]_vars
    /\ [](pool = "initialized" =>
             \E c \in Done("_cleanup_old_workers"), s \in Done("_spawn_workers") :
                c < s)
    /\ [](\A c \in Ran("_cleanup_old_workers"), s \in Ran("_spawn_workers") : c < s)

\* C38, witness: the cleanup is over, one sandbox of the run is created and
\* another is still to be, and the pool is not yet initialized.
C38_FirstSandboxWhileSpawning ==
    /\ phase = "spawn"
    /\ SandboxesOfRun # {}
    /\ \E i \in DOMAIN sandboxes : sandboxes[i].result = "pending"
    /\ Done("_cleanup_old_workers") # {}
    /\ pool = "created"

\* C39: for every limit >= 0, get_execution_history(limit) returns exactly
\* min(limit, number of stored records) records, the record finished last
\* first.
HistoryAnswered(r) ==
    pc[r] = "idle" /\ pc'[r] = "done" /\ "limit" \in DOMAIN resp'[r]
NewestFirst(body, records) ==
    \A k \in DOMAIN body :
       body[k] = HistoryEntry(records[Len(records) - k + 1])
C39_HistoryLimitExact ==
    [][\A r \in Http :
          HistoryAnswered(r) =>
             LET n == Len(history.records)
                 limit == resp'[r].limit
             IN /\ Len(resp'[r].body) = IF limit < n THEN limit ELSE n
                /\ NewestFirst(resp'[r].body, history.records)]_vars

\* C39, the part that holds: for every limit >= 1 the answer has
\* min(limit, stored) records, newest first; and every answer, limit 0
\* included, lists records newest first.
C39_PositiveLimitExact ==
    [][\A r \in Http :
          HistoryAnswered(r) =>
             LET n == Len(history.records)
                 limit == resp'[r].limit
             IN /\ limit >= 1 => Len(resp'[r].body) = IF limit < n THEN limit ELSE n
                /\ NewestFirst(resp'[r].body, history.records)]_vars
====
